---- MODULE Spec2Model ----
(***************************************************************************)
(* Model of laravel-maker (src/laravel-maker/src/main.rs): the run of the  *)
(* provisioning pipeline as a sequential state machine, one action per     *)
(* blocking external operation (container-runtime command, sleep, file     *)
(* operation), with the outcome of every external operation chosen by the  *)
(* environment.                                                            *)
(*                                                                         *)
(* Specifications:                                                         *)
(*   Spec        the pipeline, from execute_laravel_creation to main's exit *)
(*   SpecLive    the pipeline when every external operation returns         *)
(*   SpecRun     run() from its first statement, then the pipeline          *)
(*   SpecAlias   update_etc_hosts called in succession                      *)
(*   SpecPatch   configure_and_initialize_laravel called in succession      *)
(*   SpecVhost   create_vhost_file called in succession                     *)
(*   SpecConfig  get_app_config on the environments dotenv can leave        *)
(*   SpecKebab   format_to_kebab_case applied to its own result             *)
(***************************************************************************)
EXTENDS Integers, Sequences, FiniteSets, TLC

VARIABLES
    input,       \* ProjectInput built by get_user_input
    config,      \* AppConfig built by get_app_config
    pc,          \* position of the run
    stage,       \* index in RunStages of the function run() is executing
    attempt,     \* loop variable of the poll loop (0 outside the loop)
    ruleIdx,     \* index of the next element of env_updates (0 outside the loop)
    cmdIdx,      \* index of the next call of execute_command_in_container
    result,      \* value returned by run(): kind "none" while it runs
    trace,       \* external operations performed so far, with their outcomes
    exitCode,    \* process exit status (-1 while the process runs)
    projectEnv,  \* lines of <project>/.env in the runtime container
    viteCfg,     \* lines of <project>/vite.config.js
    vhostFiles,  \* files under docker/apache/vhosts: set of [path, content]
    hosts,       \* content of /etc/hosts
    dockerDirs,  \* which of "." and ".." hold a docker directory
    aliasLog,    \* calls of update_etc_hosts made in succession (SpecAlias)
    paths,       \* paths that exist, seen from the working directory
    envVars,     \* the process environment: the four keys get_app_config reads
    project_name,\* the local project_name of get_user_input ("" until chosen)
    passes,      \* files at each entry of the function called again (SpecPatch,
                 \* SpecVhost)
    norm         \* a string and its successive normalizations (SpecKebab)

vars == <<input, config, pc, stage, attempt, ruleIdx, cmdIdx, result, trace,
          exitCode, projectEnv, viteCfg, vhostFiles, hosts, dockerDirs, aliasLog,
          paths, envVars, project_name, passes, norm>>

----------------------------------------------------------------------------
(* Strings: TLC's strings with Len, SubSeq and \o.                          *)

Ch(s, i) == SubSeq(s, i, i)

DropFirst(s, n) == SubSeq(s, n + 1, Len(s))

StartsWith(s, t) == Len(t) <= Len(s) /\ SubSeq(s, 1, Len(t)) = t

EndsWith(s, t) == Len(t) <= Len(s) /\ SubSeq(s, Len(s) - Len(t) + 1, Len(s)) = t

\* str::contains: t occurs in s at some offset.
Contains(s, t) == \E i \in 0..(Len(s) - Len(t)) : SubSeq(s, i + 1, i + Len(t)) = t

Whitespace == {" ", "\t", "\n", "\r"}

RECURSIVE TrimStart(_)
TrimStart(s) ==
    IF Len(s) > 0 /\ Ch(s, 1) \in Whitespace THEN TrimStart(DropFirst(s, 1)) ELSE s

RECURSIVE TrimEnd(_)
TrimEnd(s) ==
    IF Len(s) > 0 /\ Ch(s, Len(s)) \in Whitespace
    THEN TrimEnd(SubSeq(s, 1, Len(s) - 1))
    ELSE s

\* str::trim
Trim(s) == TrimEnd(TrimStart(s))

----------------------------------------------------------------------------
(* Program constants and the values built before the pipeline starts.       *)

DEFAULT_CONTAINER_NAME == "dev_container"
DEFAULT_SERVER_PORT == 8000
DEFAULT_DB_PORT == 3306
DEFAULT_DB_ROOT_PASSWORD == "password"
VHOSTS_DIR == "docker/apache/vhosts"
max_attempts == 3

DecimalDigits == <<"0", "1", "2", "3", "4", "5", "6", "7", "8", "9">>

\* u16's Display: the decimal digits, no sign, no leading zero.
RECURSIVE PortToString(_)
PortToString(p) ==
    IF p < 10
    THEN DecimalDigits[p + 1]
    ELSE PortToString(p \div 10) \o DecimalDigits[(p % 10) + 1]

ProjectInput(name, version) ==
    [project_name |-> name,
     project_host |-> name \o ".test",
     project_path |-> "../src/" \o name,
     laravel_version |-> version]

AppConfig(container_name, password, server_port, db_port) ==
    [php_container_name |-> container_name \o "_php",
     node_container_name |-> container_name \o "_node",
     db_root_password |-> password,
     server_port |-> server_port,
     db_port |-> db_port]

\* Project names as format_to_kebab_case leaves them.
ProjectNames == {"foo", "oo"}

LaravelVersions == {"10", "12"}

Configs ==
    {AppConfig(DEFAULT_CONTAINER_NAME, DEFAULT_DB_ROOT_PASSWORD,
               DEFAULT_SERVER_PORT, DEFAULT_DB_PORT),
     AppConfig("shop", "s3cret", 8080, 3307)}

\* Contents of /etc/hosts before the run.
HostsFiles ==
    {"127.0.0.1 localhost\n",
     "127.0.0.1 localhost\n127.0.0.1 foo.test\n",
     "127.0.0.1 localhost\n127.0.0.1 oo.test"}

DockerDirSets == {{}, {"."}, {".."}}

----------------------------------------------------------------------------
(* Outcomes of external operations.                                         *)

\* std::process::Command::status / output: the program cannot be spawned
\* (launched = FALSE), or it ran and exited with success or not; stdout is
\* what output() captured.
Outcome(launched, success, stdout) ==
    [launched |-> launched, success |-> success, stdout |-> stdout]

LaunchFailure == Outcome(FALSE, FALSE, "")
ExitOk == Outcome(TRUE, TRUE, "")
ExitFail == Outcome(TRUE, FALSE, "")

CmdOutcomes == {LaunchFailure, ExitOk, ExitFail}

\* docker ps -q -f name=...: prints the ids of the matching running containers.
PsOutcomes ==
    {LaunchFailure,
     Outcome(TRUE, TRUE, "3f2a9c\n"),
     Outcome(TRUE, TRUE, ""),
     Outcome(TRUE, FALSE, "")}

Event(cmd, arg, out) == [cmd |-> cmd, arg |-> arg, out |-> out]

\* std::env::var for a key that is not set.
NoVar == [set |-> FALSE, val |-> ""]
SomeVar(v) == [set |-> TRUE, val |-> v]

ConfigKeys == {"CONTAINER_NAME", "SERVER_PORT", "DB_PORT", "DB_ROOT_PASSWORD"}

\* An environment with none of the keys set.
NoEnv == [k \in ConfigKeys |-> NoVar]

\* AppError values and Ok(()).
Err(kind, msg) == [kind |-> kind, msg |-> msg]
NoResult == [kind |-> "none", msg |-> ""]
OkResult == [kind |-> "Ok", msg |-> ""]

----------------------------------------------------------------------------
(* format_to_kebab_case                                                     *)

UpperLetters == "ABCDEFGHIJKLMNOPQRSTUVWXYZ"
LowerLetters == "abcdefghijklmnopqrstuvwxyz"

CharsOf(s) == {Ch(s, i) : i \in 1..Len(s)}

\* char::is_ascii_alphanumeric
is_ascii_alphanumeric(c) ==
    c \in CharsOf(UpperLetters) \cup CharsOf(LowerLetters) \cup CharsOf("0123456789")

\* char::to_lowercase on the characters of the model (ASCII).
LowerChar(c) ==
    IF c \in CharsOf(UpperLetters)
    THEN Ch(LowerLetters, CHOOSE i \in 1..Len(UpperLetters) : Ch(UpperLetters, i) = c)
    ELSE c

\* str::to_lowercase
RECURSIVE to_lowercase(_)
to_lowercase(s) ==
    IF s = "" THEN "" ELSE LowerChar(Ch(s, 1)) \o to_lowercase(DropFirst(s, 1))

\* The closure of the map: alphanumerics and hyphens stay, the rest becomes
\* a space.
KebabChar(c) == IF is_ascii_alphanumeric(c) \/ c = "-" THEN c ELSE " "

RECURSIVE MapKebabChars(_)
MapKebabChars(s) ==
    IF s = "" THEN "" ELSE KebabChar(Ch(s, 1)) \o MapKebabChars(DropFirst(s, 1))

\* Length of the longest prefix of s made of whitespace (ws = TRUE) or of
\* anything else (ws = FALSE).
RECURSIVE PrefixLen(_, _)
PrefixLen(s, ws) ==
    IF s # "" /\ ((Ch(s, 1) \in Whitespace) = ws)
    THEN 1 + PrefixLen(DropFirst(s, 1), ws)
    ELSE 0

\* str::split_whitespace: the maximal runs of non-whitespace, in order.
RECURSIVE split_whitespace(_)
split_whitespace(s) ==
    LET t == DropFirst(s, PrefixLen(s, TRUE))
        n == PrefixLen(t, FALSE)
    IN  IF t = "" THEN <<>>
        ELSE <<SubSeq(t, 1, n)>> \o split_whitespace(DropFirst(t, n))

\* [&str]::join
RECURSIVE join(_, _)
join(parts, sep) ==
    IF parts = <<>> THEN ""
    ELSE IF Len(parts) = 1 THEN parts[1]
    ELSE parts[1] \o sep \o join(Tail(parts), sep)

\* str::replace: the non-overlapping occurrences of from, left to right.
RECURSIVE replace(_, _, _)
replace(s, from, to) ==
    IF Len(s) < Len(from) THEN s
    ELSE IF StartsWith(s, from)
    THEN to \o replace(DropFirst(s, Len(from)), from, to)
    ELSE Ch(s, 1) \o replace(DropFirst(s, 1), from, to)

\* Faulty variant: the replacement is made once instead of in a loop.
CollapseHyphens_once(s) == replace(s, "--", "-")

\* while result.contains("--") { result = result.replace("--", "-") }
RECURSIVE CollapseHyphens(_)
CollapseHyphens(s) ==
    IF Contains(s, "--") THEN CollapseHyphens(replace(s, "--", "-")) ELSE s

\* Faulty variant: trim_start_matches, the end is left as it is.
RECURSIVE trim_matches_start_only(_, _)
trim_matches_start_only(s, c) ==
    IF s # "" /\ Ch(s, 1) = c THEN trim_matches_start_only(DropFirst(s, 1), c) ELSE s

\* str::trim_matches(char)
RECURSIVE trim_matches(_, _)
trim_matches(s, c) ==
    IF s # "" /\ Ch(s, 1) = c THEN trim_matches(DropFirst(s, 1), c)
    ELSE IF s # "" /\ Ch(s, Len(s)) = c THEN trim_matches(SubSeq(s, 1, Len(s) - 1), c)
    ELSE s

format_to_kebab_case(s) ==
    LET lower == to_lowercase(s)
        mapped == MapKebabChars(lower)
        joined == join(split_whitespace(mapped), "-")
    IN  trim_matches(CollapseHyphens(joined), "-")

----------------------------------------------------------------------------
(* get_app_config                                                           *)

\* str::parse for an unsigned integer type of maximum max: an optional +,
\* then one or more decimal digits whose value fits.  acc is the value of
\* the digits read so far.
RECURSIVE ParseDigits(_, _, _)
ParseDigits(s, acc, max) ==
    IF s = "" THEN [ok |-> TRUE, val |-> acc]
    ELSE IF Ch(s, 1) \notin CharsOf("0123456789") THEN [ok |-> FALSE, val |-> 0]
    ELSE LET d == (CHOOSE i \in 1..10 : DecimalDigits[i] = Ch(s, 1)) - 1
             v == acc * 10 + d
         IN  IF v > max THEN [ok |-> FALSE, val |-> 0]
             ELSE ParseDigits(DropFirst(s, 1), v, max)

ParseUnsigned(s, max) ==
    LET digits == IF StartsWith(s, "+") THEN DropFirst(s, 1) ELSE s IN
    IF digits = "" THEN [ok |-> FALSE, val |-> 0] ELSE ParseDigits(digits, 0, max)

U16_MAX == 65535
U8_MAX == 255

\* A text setting: the trimmed value when the key is set and not blank.
TextSetting(v, default) ==
    IF v.set /\ Trim(v.val) # "" THEN Trim(v.val) ELSE default

\* A port setting: the parsed value of the trimmed text when the key is set
\* and parses as u16.
PortSetting(v, default) ==
    IF v.set /\ ParseUnsigned(Trim(v.val), U16_MAX).ok
    THEN ParseUnsigned(Trim(v.val), U16_MAX).val
    ELSE default

\* Faulty variant: a blank container name is taken as given.
get_app_config_blank_name(env) ==
    AppConfig(IF env["CONTAINER_NAME"].set
              THEN Trim(env["CONTAINER_NAME"].val)
              ELSE DEFAULT_CONTAINER_NAME,
              TextSetting(env["DB_ROOT_PASSWORD"], DEFAULT_DB_ROOT_PASSWORD),
              PortSetting(env["SERVER_PORT"], DEFAULT_SERVER_PORT),
              PortSetting(env["DB_PORT"], DEFAULT_DB_PORT))

get_app_config(env) ==
    AppConfig(TextSetting(env["CONTAINER_NAME"], DEFAULT_CONTAINER_NAME),
              TextSetting(env["DB_ROOT_PASSWORD"], DEFAULT_DB_ROOT_PASSWORD),
              PortSetting(env["SERVER_PORT"], DEFAULT_SERVER_PORT),
              PortSetting(env["DB_PORT"], DEFAULT_DB_PORT))

----------------------------------------------------------------------------
(* run(): the stages in the order of the calls.                             *)

\* Faulty variant: the virtual-host and alias stages exchanged.
RunStages_swapped ==
    <<"execute_laravel_creation",
      "configure_and_initialize_laravel",
      "update_etc_hosts",
      "create_vhost_file",
      "restart_apache_container">>

\* Faulty variant: the proxy restart called a second time.
RunStages_restart_twice ==
    <<"execute_laravel_creation",
      "configure_and_initialize_laravel",
      "create_vhost_file",
      "update_etc_hosts",
      "restart_apache_container",
      "restart_apache_container">>

RunStages ==
    <<"execute_laravel_creation",
      "configure_and_initialize_laravel",
      "create_vhost_file",
      "update_etc_hosts",
      "restart_apache_container">>

EntryPc(fn) ==
    CASE fn = "execute_laravel_creation" -> "check_initial"
      [] fn = "configure_and_initialize_laravel" -> "sed_env"
      [] fn = "create_vhost_file" -> "vhost"
      [] fn = "update_etc_hosts" -> "hosts"
      [] fn = "restart_apache_container" -> "restart"

\* A stage returned Ok(()): run() calls the next one, or returns Ok(()).
ReturnOk ==
    IF stage = Len(RunStages)
    THEN /\ pc' = "main"
         /\ result' = OkResult
         /\ stage' = stage
    ELSE /\ pc' = EntryPc(RunStages[stage + 1])
         /\ result' = result
         /\ stage' = stage + 1

\* Faulty variant: the error is dropped and run() goes on.
ReturnErr_ignored(e) == ReturnOk

\* A stage returned Err(e): the ? operator makes run() return it.
ReturnErr(e) ==
    /\ pc' = "main"
    /\ result' = e
    /\ stage' = stage

Goto(p) ==
    /\ pc' = p
    /\ UNCHANGED <<stage, result>>

Log(events) == trace' = trace \o events

----------------------------------------------------------------------------
(* execute_laravel_creation                                                 *)

\* The closure check_container_is_running: Err when docker cannot be
\* spawned, otherwise Ok(stdout is not blank); the exit status is not read.
\* Faulty variant: the negation of is_empty() is missing.
check_container_is_running_negated(o) ==
    IF ~o.launched
    THEN [ok |-> FALSE, val |-> FALSE]
    ELSE [ok |-> TRUE, val |-> Trim(o.stdout) = ""]

check_container_is_running(o) ==
    IF ~o.launched
    THEN [ok |-> FALSE, val |-> FALSE]
    ELSE [ok |-> TRUE, val |-> Trim(o.stdout) # ""]

PsEvent(o) == Event("docker ps", config.php_container_name, o)

\* The match on the first status query: Ok(true) goes on to the scaffold,
\* anything else (Ok(false) or Err) to docker compose up.
InitialNext(r) ==
    IF r.ok /\ r.val THEN Goto("create_project") ELSE Goto("compose_up")

CheckInitial ==
    /\ pc = "check_initial"
    /\ \E o \in PsOutcomes :
        /\ Log(<<PsEvent(o)>>)
        /\ InitialNext(check_container_is_running(o))
    /\ UNCHANGED <<input, config, attempt, ruleIdx, cmdIdx, exitCode, projectEnv,
                   viteCfg, vhostFiles, hosts, dockerDirs, aliasLog,
                   paths, envVars, project_name, passes, norm>>

\* Faulty variant: the exit status of docker compose up is not read.
UpResult_unchecked(o) ==
    IF ~o.launched
    THEN Err("Docker", "Falha ao executar 'docker compose up -d'")
    ELSE NoResult

\* What docker compose up -d makes the function return (kind "none": go
\* on to the poll loop).
UpResult(o) ==
    IF ~o.launched
    THEN Err("Docker", "Falha ao executar 'docker compose up -d'")
    ELSE IF ~o.success
    THEN Err("Docker", "Falha ao iniciar o ambiente Docker Compose.")
    ELSE NoResult

ComposeUp ==
    /\ pc = "compose_up"
    /\ \E o \in CmdOutcomes :
        LET r == UpResult(o) IN
        /\ Log(<<Event("docker compose up -d", "", o)>>)
        /\ IF r.kind # "none"
           THEN /\ ReturnErr(r)
                /\ attempt' = attempt
           ELSE /\ Goto("poll_sleep")
                /\ attempt' = 1
    /\ UNCHANGED <<input, config, ruleIdx, cmdIdx, exitCode, projectEnv,
                   viteCfg, vhostFiles, hosts, dockerDirs, aliasLog,
                   paths, envVars, project_name, passes, norm>>

\* Top of the loop body: the message, then thread::sleep(wait_time) of 3
\* seconds.  The flush()? before the sleep follows a println!, which has
\* already written the whole line (stdout is line buffered and println!
\* panics if it cannot write): it has nothing left to write and returns Ok.
PollSleep ==
    /\ pc = "poll_sleep"
    /\ Log(<<Event("sleep", "3", ExitOk)>>)
    /\ Goto("poll_check")
    /\ UNCHANGED <<input, config, attempt, ruleIdx, cmdIdx, exitCode, projectEnv,
                   viteCfg, vhostFiles, hosts, dockerDirs, aliasLog,
                   paths, envVars, project_name, passes, norm>>

\* Faulty variant: the arm for the last attempt never matches, so the loop
\* runs out and the function goes on.
PollNext_noexhaust(r) ==
    IF r.ok /\ r.val
    THEN /\ Goto("create_project")
         /\ attempt' = 0
    ELSE IF ~r.ok
    THEN /\ ReturnErr(Err("Docker", "Falha ao verificar o status do contêiner"))
         /\ attempt' = 0
    ELSE IF attempt < max_attempts
    THEN /\ Goto("poll_sleep")
         /\ attempt' = attempt + 1
    ELSE /\ Goto("create_project")
         /\ attempt' = 0

\* Faulty variant: the range of the loop is 1..=max_attempts + 1.
PollNext_extra_attempt(r) ==
    IF r.ok /\ r.val
    THEN /\ Goto("create_project")
         /\ attempt' = 0
    ELSE IF r.ok /\ ~r.val /\ attempt = max_attempts + 1
    THEN /\ ReturnErr(Err("Docker", "O contêiner PHP falhou ao iniciar após max_attempts tentativas."))
         /\ attempt' = 0
    ELSE IF ~r.ok
    THEN /\ ReturnErr(Err("Docker", "Falha ao verificar o status do contêiner"))
         /\ attempt' = 0
    ELSE /\ Goto("poll_sleep")
         /\ attempt' = attempt + 1

\* Faulty variant: the arm for the last attempt comes first and does not
\* look at the answer.
PollNext_last_first(r) ==
    IF r.ok /\ attempt = max_attempts
    THEN /\ ReturnErr(Err("Docker", "O contêiner PHP falhou ao iniciar após max_attempts tentativas."))
         /\ attempt' = 0
    ELSE IF r.ok /\ r.val
    THEN /\ Goto("create_project")
         /\ attempt' = 0
    ELSE IF ~r.ok
    THEN /\ ReturnErr(Err("Docker", "Falha ao verificar o status do contêiner"))
         /\ attempt' = 0
    ELSE /\ Goto("poll_sleep")
         /\ attempt' = attempt + 1

\* The match on the status query of one attempt.
PollNext(r) ==
    IF r.ok /\ r.val
    THEN /\ Goto("create_project")
         /\ attempt' = 0
    ELSE IF r.ok /\ ~r.val /\ attempt = max_attempts
    THEN /\ ReturnErr(Err("Docker", "O contêiner PHP falhou ao iniciar após max_attempts tentativas."))
         /\ attempt' = 0
    ELSE IF ~r.ok
    THEN /\ ReturnErr(Err("Docker", "Falha ao verificar o status do contêiner"))
         /\ attempt' = 0
    ELSE IF attempt < max_attempts
    THEN \* continue: the range 1..=max_attempts yields the next attempt
         /\ Goto("poll_sleep")
         /\ attempt' = attempt + 1
    ELSE \* continue on the last attempt: the range is exhausted, the loop ends
         /\ Goto("create_project")
         /\ attempt' = 0

PollCheck ==
    /\ pc = "poll_check"
    /\ \E o \in PsOutcomes :
        /\ Log(<<PsEvent(o)>>)
        /\ PollNext(check_container_is_running(o))
    /\ UNCHANGED <<input, config, ruleIdx, cmdIdx, exitCode, projectEnv,
                   viteCfg, vhostFiles, hosts, dockerDirs, aliasLog,
                   paths, envVars, project_name, passes, norm>>

----------------------------------------------------------------------------
(* sed -i '<script>' <file> for the scripts the program builds: one        *)
(* s command, a pattern of literal characters, "." and a final "$", the    *)
(* first match of each line replaced.                                      *)

\* The character at i is escaped: an unescaped backslash stands before it.
RECURSIVE EscapedAt(_, _)
EscapedAt(s, i) == i > 1 /\ Ch(s, i - 1) = "\\" /\ ~EscapedAt(s, i - 1)

\* s<d>pattern<d>replacement<d> with no flags and a pattern that is not
\* empty; anything else sed rejects.
ParseSed(script) ==
    IF Len(script) < 2 \/ Ch(script, 1) # "s"
    THEN [ok |-> FALSE, pat |-> "", repl |-> ""]
    ELSE LET d == Ch(script, 2)
             cuts == {i \in 3..Len(script) : Ch(script, i) = d /\ ~EscapedAt(script, i)}
             c1 == CHOOSE i \in cuts : \A j \in cuts : i <= j
             c2 == CHOOSE i \in cuts : \A j \in cuts : j <= i
         IN  IF Cardinality(cuts) = 2 /\ c2 = Len(script) /\ c1 > 3
             THEN [ok |-> TRUE,
                   pat |-> SubSeq(script, 3, c1 - 1),
                   repl |-> SubSeq(script, c1 + 1, c2 - 1)]
             ELSE [ok |-> FALSE, pat |-> "", repl |-> ""]

Unescape(c) ==
    CASE c = "n" -> "\n"
      [] c = "t" -> "\t"
      [] OTHER -> c

\* The pattern as a sequence of [any, ch]: "." matches any character, an
\* escaped character matches itself.
RECURSIVE PatternTokens(_, _)
PatternTokens(p, i) ==
    IF i > Len(p) THEN <<>>
    ELSE IF Ch(p, i) = "\\" /\ i < Len(p)
    THEN <<[any |-> FALSE, ch |-> Unescape(Ch(p, i + 1))]>> \o PatternTokens(p, i + 2)
    ELSE IF Ch(p, i) = "."
    THEN <<[any |-> TRUE, ch |-> "."]>> \o PatternTokens(p, i + 1)
    ELSE <<[any |-> FALSE, ch |-> Ch(p, i)]>> \o PatternTokens(p, i + 1)

\* The pattern ends with an unescaped "$": it matches at the end of a line.
AnchoredAtEnd(p) == EndsWith(p, "$") /\ ~EscapedAt(p, Len(p))

PatternBody(p) == IF AnchoredAtEnd(p) THEN SubSeq(p, 1, Len(p) - 1) ELSE p

MatchesAt(line, toks, atEnd, pos) ==
    /\ pos + Len(toks) - 1 <= Len(line)
    /\ atEnd => pos + Len(toks) - 1 = Len(line)
    /\ \A k \in 1..Len(toks) : toks[k].any \/ Ch(line, pos + k - 1) = toks[k].ch

\* The replacement text: "&" is the matched text, "\c" is c.
RECURSIVE ExpandReplacement(_, _, _)
ExpandReplacement(r, i, matched) ==
    IF i > Len(r) THEN ""
    ELSE IF Ch(r, i) = "\\" /\ i < Len(r)
    THEN Unescape(Ch(r, i + 1)) \o ExpandReplacement(r, i + 2, matched)
    ELSE IF Ch(r, i) = "&"
    THEN matched \o ExpandReplacement(r, i + 1, matched)
    ELSE Ch(r, i) \o ExpandReplacement(r, i + 1, matched)

\* One line edited: the leftmost match replaced, if there is one.
SedLineWith(toks, atEnd, repl, line) ==
    LET hits == {p \in 1..Len(line) : MatchesAt(line, toks, atEnd, p)} IN
    IF hits = {} THEN line
    ELSE LET p == CHOOSE q \in hits : \A h \in hits : q <= h
             matched == SubSeq(line, p, p + Len(toks) - 1)
         IN  SubSeq(line, 1, p - 1)
               \o ExpandReplacement(repl, 1, matched)
               \o DropFirst(line, p + Len(toks) - 1)

SedLine(script, line) ==
    LET ps == ParseSed(script) IN
    SedLineWith(PatternTokens(PatternBody(ps.pat), 1), AnchoredAtEnd(ps.pat),
                ps.repl, line)

\* A text cut into its lines at "\n".
RECURSIVE SplitLines(_, _)
SplitLines(s, from) ==
    LET nls == {i \in from..Len(s) : Ch(s, i) = "\n"} IN
    IF nls = {} THEN <<SubSeq(s, from, Len(s))>>
    ELSE LET n == CHOOSE i \in nls : \A j \in nls : i <= j IN
         <<SubSeq(s, from, n - 1)>> \o SplitLines(s, n + 1)

RECURSIVE SedLines(_, _, _, _)
SedLines(toks, atEnd, repl, file) ==
    IF file = <<>> THEN <<>>
    ELSE SplitLines(SedLineWith(toks, atEnd, repl, Head(file)), 1)
           \o SedLines(toks, atEnd, repl, Tail(file))

\* The file after sed -i: every line edited, a replacement's newlines
\* starting new lines.
SedFile(script, file) ==
    LET ps == ParseSed(script) IN
    SedLines(PatternTokens(PatternBody(ps.pat), 1), AnchoredAtEnd(ps.pat),
             ps.repl, file)

\* What sed can answer: a script it cannot parse never exits successfully.
SedOutcomes(script) ==
    IF ParseSed(script).ok THEN CmdOutcomes ELSE CmdOutcomes \ {ExitOk}

\* The project files composer create-project laravel/laravel leaves in
\* /var/www/html/<project_name>, cut to the lines the substitution rules
\* look at: the .env of the requested framework version (the database keys
\* are commented out from version 11 on) ...
ScaffoldEnv(version) ==
    IF version = "10"
    THEN <<"APP_NAME=Laravel",
           "APP_URL=http://localhost",
           "DB_CONNECTION=mysql",
           "DB_HOST=127.0.0.1",
           "DB_PORT=3306",
           "DB_DATABASE=laravel",
           "DB_USERNAME=root",
           "DB_PASSWORD=">>
    ELSE <<"APP_NAME=Laravel",
           "APP_URL=http://localhost",
           "DB_CONNECTION=sqlite",
           "# DB_HOST=127.0.0.1",
           "# DB_PORT=3306",
           "# DB_DATABASE=laravel",
           "# DB_USERNAME=root",
           "# DB_PASSWORD=">>

\* ... and its vite.config.js.
ScaffoldVite ==
    <<"export default defineConfig({",
      "    plugins: [laravel({ refresh: true })],",
      "});">>

\* docker exec -it <php> composer create-project laravel/laravel <name> <version>
CreateProject ==
    /\ pc = "create_project"
    /\ \E o \in CmdOutcomes :
        /\ Log(<<Event("composer create-project", input.project_name, o)>>)
        /\ IF ~o.launched
           THEN /\ ReturnErr(Err("Docker", "Falha ao executar 'docker exec composer'"))
                /\ UNCHANGED <<projectEnv, viteCfg>>
           ELSE IF ~o.success
           THEN /\ ReturnErr(Err("Docker", "Composer falhou ao criar o projeto."))
                /\ UNCHANGED <<projectEnv, viteCfg>>
           ELSE /\ ReturnOk
                /\ projectEnv' = ScaffoldEnv(input.laravel_version)
                /\ viteCfg' = ScaffoldVite
    /\ UNCHANGED <<input, config, attempt, ruleIdx, cmdIdx, exitCode,
                   vhostFiles, hosts, dockerDirs, aliasLog,
                   paths, envVars, project_name, passes, norm>>

----------------------------------------------------------------------------
(* configure_and_initialize_laravel                                         *)

\* Faulty variant: the password rule matches the key without its comment
\* marker.
env_updates_password_key ==
    <<"s/APP_URL=http:\\/\\/localhost/APP_URL=http:\\/\\/" \o input.project_host \o "/",
      "s/DB_CONNECTION=sqlite/DB_CONNECTION=mariadb/",
      "s/# DB_PORT=3306/DB_PORT=" \o PortToString(config.db_port) \o "/",
      "s/# DB_DATABASE=laravel/DB_DATABASE=" \o input.project_name \o "/",
      "s/# DB_HOST=127.0.0.1/DB_HOST=mariadb/",
      "s/# DB_USERNAME=root/DB_USERNAME=root/",
      "s/DB_PASSWORD=/DB_PASSWORD=" \o config.db_root_password \o "/">>

env_updates ==
    <<"s/APP_URL=http:\\/\\/localhost/APP_URL=http:\\/\\/" \o input.project_host \o "/",
      "s/DB_CONNECTION=sqlite/DB_CONNECTION=mariadb/",
      "s/# DB_PORT=3306/DB_PORT=" \o PortToString(config.db_port) \o "/",
      "s/# DB_DATABASE=laravel/DB_DATABASE=" \o input.project_name \o "/",
      "s/# DB_HOST=127.0.0.1/DB_HOST=mariadb/",
      "s/# DB_USERNAME=root/DB_USERNAME=root/",
      "s/# DB_PASSWORD=/DB_PASSWORD=" \o config.db_root_password \o "/">>

\* Faulty variant: the exit status of sed is not read.
SedEnvResult_unchecked(update, o) ==
    IF ~o.launched
    THEN Err("Docker", "Falha ao executar sed para .env")
    ELSE NoResult

\* The outcome of one element of env_updates: what the loop body returns
\* (kind "none": go on with the loop).
SedEnvResult(update, o) ==
    IF ~o.launched
    THEN Err("Docker", "Falha ao executar sed para .env")
    ELSE IF ~o.success
    THEN Err("Docker", "Falha ao atualizar o .env com: '" \o update \o "'")
    ELSE NoResult

\* One iteration of the loop over env_updates.
SedEnv ==
    /\ pc = "sed_env"
    /\ LET update == env_updates[ruleIdx] IN
       \E o \in SedOutcomes(update) :
        LET r == SedEnvResult(update, o) IN
        /\ Log(<<Event("sed .env", update, o)>>)
        /\ projectEnv' = IF o.launched /\ o.success
                         THEN SedFile(update, projectEnv)
                         ELSE projectEnv
        /\ IF r.kind # "none"
           THEN /\ ReturnErr(r)
                /\ ruleIdx' = ruleIdx
           ELSE IF ruleIdx < Len(env_updates)
           THEN /\ Goto("sed_env")
                /\ ruleIdx' = ruleIdx + 1
           ELSE /\ Goto("exec_cmd")
                /\ ruleIdx' = ruleIdx
    /\ UNCHANGED <<input, config, attempt, cmdIdx, exitCode, viteCfg,
                   vhostFiles, hosts, dockerDirs, aliasLog,
                   paths, envVars, project_name, passes, norm>>

execute_command_in_container(container_name, o) ==
    IF ~o.launched
    THEN Err("Docker", "Falha ao executar comando no contênier '" \o container_name \o "'")
    ELSE IF o.success
    THEN OkResult
    ELSE Err("Docker", "Comando falho dentro do contêiner '" \o container_name \o "'")

\* The four calls of execute_command_in_container, in order.
ContainerCommands ==
    <<[container |-> config.php_container_name,
       command |-> "cd /var/www/html/" \o input.project_name \o " && php artisan config:clear"],
      [container |-> config.php_container_name,
       command |-> "cd /var/www/html/" \o input.project_name \o " && php artisan migrate --force"],
      [container |-> config.php_container_name,
       command |-> "cd /var/www/html/" \o input.project_name \o " && composer update"],
      [container |-> config.node_container_name,
       command |-> "cd /var/www/html/" \o input.project_name \o " && npm install"]>>

ExecCommand ==
    /\ pc = "exec_cmd"
    /\ LET c == ContainerCommands[cmdIdx] IN
       \E o \in CmdOutcomes :
        LET r == execute_command_in_container(c.container, o) IN
        /\ Log(<<Event("docker exec", c.container \o " sh -c " \o c.command, o)>>)
        /\ IF r.kind # "Ok"
           THEN /\ ReturnErr(r)
                /\ cmdIdx' = cmdIdx
           ELSE IF cmdIdx < Len(ContainerCommands)
           THEN /\ Goto("exec_cmd")
                /\ cmdIdx' = cmdIdx + 1
           ELSE /\ Goto("sed_vite")
                /\ cmdIdx' = cmdIdx
    /\ UNCHANGED <<input, config, attempt, ruleIdx, exitCode, projectEnv, viteCfg,
                   vhostFiles, hosts, dockerDirs, aliasLog,
                   paths, envVars, project_name, passes, norm>>

vite_update == "s|});$|\\tserver: {\\n\\t\\thost: '0.0.0.0'\\n\\t}\\n});|"

SedVite ==
    /\ pc = "sed_vite"
    /\ \E o \in SedOutcomes(vite_update) :
        /\ Log(<<Event("sed vite.config.js", vite_update, o)>>)
        /\ IF ~o.launched
           THEN /\ ReturnErr(Err("Docker", "Falha ao executar sed para vite.config.js"))
                /\ viteCfg' = viteCfg
           ELSE IF ~o.success
           THEN /\ ReturnErr(Err("Docker", "Falha ao atualizar o vite.config.js com: '"
                                           \o vite_update \o "'"))
                /\ viteCfg' = viteCfg
           ELSE /\ ReturnOk
                /\ viteCfg' = SedFile(vite_update, viteCfg)
    /\ UNCHANGED <<input, config, attempt, ruleIdx, cmdIdx, exitCode, projectEnv,
                   vhostFiles, hosts, dockerDirs, aliasLog,
                   paths, envVars, project_name, passes, norm>>

----------------------------------------------------------------------------
(* create_vhost_file                                                        *)

find_project_root ==
    IF "." \in dockerDirs THEN "."
    ELSE IF ".." \in dockerDirs THEN ".."
    ELSE "None"

vhost_path(root) == root \o "/" \o VHOSTS_DIR \o "/" \o input.project_host \o ".conf"

vhost_content ==
    "<VirtualHost *:80>\n"
    \o "    # Nome do host que será usado (ex: minha-app.test)\n"
    \o "    ServerName " \o input.project_host \o "\n"
    \o "\n"
    \o "    # Diretório raiz do projeto Laravel (montado em /var/www/html/)\n"
    \o "    DocumentRoot /var/www/html/" \o input.project_name \o "/public\n"
    \o "\n"
    \o "    <Directory /var/www/html/" \o input.project_name \o "/public>\n"
    \o "        AllowOverride All\n"
    \o "         Require all granted\n"
    \o "        DirectoryIndex index.php index.html\n"
    \o "    </Directory>\n"
    \o "\n"
    \o "    <FilesMatch \\.php$>\n"
    \o "        SetHandler \"proxy:fcgi://php:9000\"\n"
    \o "    </FilesMatch>\n"
    \o "</VirtualHost>"

\* Faulty variant: a file already at path is kept beside the new one.
WriteFile_beside(files, path, content) ==
    files \cup {[path |-> path, content |-> content]}

\* fs::write: the file at path is created or replaced.
WriteFile(files, path, content) ==
    {f \in files : f.path # path} \cup {[path |-> path, content |-> content]}

CreateVhostFile ==
    /\ pc = "vhost"
    /\ LET root == find_project_root IN
       IF root = "None"
       THEN /\ Log(<<Event("find_project_root", "", ExitFail)>>)
            /\ ReturnErr(Err("Io", "Não foi possível determinar o diretório raiz do projeto "
                                   \o input.project_name))
            /\ vhostFiles' = vhostFiles
       ELSE \E o \in {ExitOk, ExitFail} :
            /\ Log(<<Event("find_project_root", root, ExitOk),
                     Event("fs::write", vhost_path(root), o)>>)
            /\ IF o.success
               THEN /\ ReturnOk
                    /\ vhostFiles' = WriteFile(vhostFiles, vhost_path(root), vhost_content)
               ELSE /\ ReturnErr(Err("Io", "fs::write"))
                    /\ vhostFiles' = vhostFiles
    /\ UNCHANGED <<input, config, attempt, ruleIdx, cmdIdx, exitCode, projectEnv,
                   viteCfg, hosts, dockerDirs, aliasLog,
                   paths, envVars, project_name, passes, norm>>

----------------------------------------------------------------------------
(* update_etc_hosts                                                         *)

\* The whole function on an alias file holding content: readOk is whether
\* fs::read_to_string succeeds, o the outcome of sudo sh -c "echo ... >> ..."
\* if it is run.  res is the value returned, hosts the file afterwards,
\* events the operations performed.
\* Faulty variant: the host is left out of the line written.
host_entry_bare(project_host) == "127.0.0.1"

host_entry(project_host) == "127.0.0.1 " \o project_host

\* Faulty variant: the check looks for the whole line "127.0.0.1 <host>".
AlreadyListed_entry(content, project_host) ==
    Contains(content, host_entry(project_host))

\* The check made on the content read: the host string occurs in it.
AlreadyListed(content, project_host) == Contains(content, project_host)

\* Faulty variant: a failed read of the alias file is returned with ?.
update_etc_hosts_read_aborts(content, project_host, readOk, o) ==
    LET command_string == "echo '" \o host_entry(project_host) \o "' >> /etc/hosts"
        readEv == Event("fs::read_to_string", "/etc/hosts",
                        IF readOk THEN ExitOk ELSE ExitFail)
        sudoEv == Event("sudo", command_string, o)
    IN  IF ~readOk
        THEN [res |-> Err("Io", "fs::read_to_string"), hosts |-> content,
              events |-> <<readEv>>]
        ELSE IF AlreadyListed(content, project_host)
        THEN [res |-> OkResult, hosts |-> content, events |-> <<readEv>>]
        ELSE IF ~o.launched
        THEN [res |-> Err("Io", "sudo"), hosts |-> content,
              events |-> <<readEv, sudoEv>>]
        ELSE IF o.success
        THEN [res |-> OkResult, hosts |-> content \o host_entry(project_host) \o "\n",
              events |-> <<readEv, sudoEv>>]
        ELSE [res |-> Err("Validation", "Falha ao executar 'sudo'."), hosts |-> content,
              events |-> <<readEv, sudoEv>>]

\* Faulty variant: a refused append is reported as a user abort.
update_etc_hosts_refusal_interrupts(content, project_host, readOk, o) ==
    LET command_string == "echo '" \o host_entry(project_host) \o "' >> /etc/hosts"
        readEv == Event("fs::read_to_string", "/etc/hosts",
                        IF readOk THEN ExitOk ELSE ExitFail)
        sudoEv == Event("sudo", command_string, o)
    IN  IF readOk /\ AlreadyListed(content, project_host)
        THEN [res |-> OkResult, hosts |-> content, events |-> <<readEv>>]
        ELSE IF ~o.launched
        THEN [res |-> Err("Io", "sudo"), hosts |-> content,
              events |-> <<readEv, sudoEv>>]
        ELSE IF o.success
        THEN [res |-> OkResult, hosts |-> content \o host_entry(project_host) \o "\n",
              events |-> <<readEv, sudoEv>>]
        ELSE [res |-> Err("Interrupted", "sudo"), hosts |-> content,
              events |-> <<readEv, sudoEv>>]

\* Faulty variant: the exit status of sudo is not read.
update_etc_hosts_status_unchecked(content, project_host, readOk, o) ==
    LET command_string == "echo '" \o host_entry(project_host) \o "' >> /etc/hosts"
        readEv == Event("fs::read_to_string", "/etc/hosts",
                        IF readOk THEN ExitOk ELSE ExitFail)
        sudoEv == Event("sudo", command_string, o)
    IN  IF readOk /\ AlreadyListed(content, project_host)
        THEN [res |-> OkResult, hosts |-> content, events |-> <<readEv>>]
        ELSE IF ~o.launched
        THEN [res |-> Err("Io", "sudo"), hosts |-> content,
              events |-> <<readEv, sudoEv>>]
        ELSE [res |-> OkResult,
              hosts |-> IF o.success
                        THEN content \o host_entry(project_host) \o "\n"
                        ELSE content,
              events |-> <<readEv, sudoEv>>]

update_etc_hosts(content, project_host, readOk, o) ==
    LET command_string == "echo '" \o host_entry(project_host) \o "' >> /etc/hosts"
        readEv == Event("fs::read_to_string", "/etc/hosts",
                        IF readOk THEN ExitOk ELSE ExitFail)
        sudoEv == Event("sudo", command_string, o)
    IN  IF readOk /\ AlreadyListed(content, project_host)
        THEN [res |-> OkResult, hosts |-> content, events |-> <<readEv>>]
        ELSE IF ~o.launched
        THEN [res |-> Err("Io", "sudo"), hosts |-> content,
              events |-> <<readEv, sudoEv>>]
        ELSE IF o.success
        THEN [res |-> OkResult, hosts |-> content \o host_entry(project_host) \o "\n",
              events |-> <<readEv, sudoEv>>]
        ELSE [res |-> Err("Validation", "Falha ao executar 'sudo'."), hosts |-> content,
              events |-> <<readEv, sudoEv>>]

UpdateEtcHosts ==
    /\ pc = "hosts"
    /\ \E readOk \in BOOLEAN, o \in CmdOutcomes :
        LET r == update_etc_hosts(hosts, input.project_host, readOk, o) IN
        /\ Log(r.events)
        /\ hosts' = r.hosts
        /\ IF r.res.kind = "Ok" THEN ReturnOk ELSE ReturnErr(r.res)
    /\ UNCHANGED <<input, config, attempt, ruleIdx, cmdIdx, exitCode, projectEnv,
                   viteCfg, vhostFiles, dockerDirs, aliasLog,
                   paths, envVars, project_name, passes, norm>>

----------------------------------------------------------------------------
(* restart_apache_container                                                 *)

\* docker compose restart apache, once; on success the settle delay of 1
\* second (the flush()? after it follows a println!, as in the poll loop).
RestartApache ==
    /\ pc = "restart"
    /\ \E o \in CmdOutcomes :
        IF ~o.launched
        THEN /\ Log(<<Event("docker compose restart apache", "", o)>>)
             /\ ReturnErr(Err("Docker", "Falha ao executar 'docker compose restart'"))
        ELSE IF o.success
        THEN /\ Log(<<Event("docker compose restart apache", "", o),
                      Event("sleep", "1", ExitOk)>>)
             /\ ReturnOk
        ELSE /\ Log(<<Event("docker compose restart apache", "", o)>>)
             /\ ReturnErr(Err("Docker", "Falha ao reiniciar o contêiner Apache."))
    /\ UNCHANGED <<input, config, attempt, ruleIdx, cmdIdx, exitCode, projectEnv,
                   viteCfg, vhostFiles, hosts, dockerDirs, aliasLog,
                   paths, envVars, project_name, passes, norm>>

----------------------------------------------------------------------------
(* main                                                                     *)

\* Faulty variant: the Err arm prints the error and does not call exit(1).
Main_exit_missing ==
    /\ pc = "main"
    /\ pc' = "exited"
    /\ exitCode' = 0
    /\ UNCHANGED <<input, config, stage, attempt, ruleIdx, cmdIdx, result, trace,
                   projectEnv, viteCfg, vhostFiles, hosts, dockerDirs, aliasLog,
                   paths, envVars, project_name, passes, norm>>

\* run() has returned: Ok ends the process with status 0, Err prints the
\* error and calls exit(1).
Main ==
    /\ pc = "main"
    /\ pc' = "exited"
    /\ exitCode' = IF result.kind = "Ok" THEN 0 ELSE 1
    /\ UNCHANGED <<input, config, stage, attempt, ruleIdx, cmdIdx, result, trace,
                   projectEnv, viteCfg, vhostFiles, hosts, dockerDirs, aliasLog,
                   paths, envVars, project_name, passes, norm>>

----------------------------------------------------------------------------
(* One run of the program, from the first call of the pipeline.             *)

Init ==
    /\ input \in {ProjectInput(n, v) : n \in ProjectNames, v \in LaravelVersions}
    /\ config \in Configs
    /\ pc = EntryPc(RunStages[1])
    /\ stage = 1
    /\ attempt = 0
    /\ ruleIdx = 1
    /\ cmdIdx = 1
    /\ result = NoResult
    /\ trace = <<>>
    /\ exitCode = -1
    /\ projectEnv = <<>>
    /\ viteCfg = <<>>
    /\ vhostFiles = {}
    /\ hosts \in HostsFiles
    /\ dockerDirs \in DockerDirSets
    /\ aliasLog = <<>>
    /\ paths = {}
    /\ envVars = NoEnv
    /\ project_name = input.project_name
    /\ passes = <<>>
    /\ norm = <<>>

Next ==
    \/ CheckInitial
    \/ ComposeUp
    \/ PollSleep
    \/ PollCheck
    \/ CreateProject
    \/ SedEnv
    \/ ExecCommand
    \/ SedVite
    \/ CreateVhostFile
    \/ UpdateEtcHosts
    \/ RestartApache
    \/ Main

Spec == Init /\ [][Next]_vars

\* The run on a machine whose alias file lacks the host and whose working
\* directory holds the docker directory (neither is read before the third
\* stage), when every blocking operation returns: a step that can be taken
\* is taken.
InitLive ==
    /\ Init
    /\ hosts = "127.0.0.1 localhost\n"
    /\ dockerDirs = {"."}

SpecLive == InitLive /\ [][Next]_vars /\ WF_vars(Next)

----------------------------------------------------------------------------
(* update_etc_hosts called again and again for the same host, as by        *)
(* successive runs that reach it.                                           *)

MaxCalls == 3

InitAlias ==
    /\ input \in {ProjectInput(n, "12") : n \in ProjectNames}
    /\ config = AppConfig(DEFAULT_CONTAINER_NAME, DEFAULT_DB_ROOT_PASSWORD,
                          DEFAULT_SERVER_PORT, DEFAULT_DB_PORT)
    /\ pc = "hosts"
    /\ stage = 4
    /\ attempt = 0
    /\ ruleIdx = 1
    /\ cmdIdx = 1
    /\ result = NoResult
    /\ trace = <<>>
    /\ exitCode = -1
    /\ projectEnv = <<>>
    /\ viteCfg = <<>>
    /\ vhostFiles = {}
    /\ hosts \in HostsFiles
    /\ dockerDirs = {"."}
    /\ aliasLog = <<>>
    /\ paths = {}
    /\ envVars = NoEnv
    /\ project_name = input.project_name
    /\ passes = <<>>
    /\ norm = <<>>

AliasCall ==
    /\ Len(aliasLog) < MaxCalls
    /\ \E readOk \in BOOLEAN, o \in CmdOutcomes :
        LET r == update_etc_hosts(hosts, input.project_host, readOk, o) IN
        /\ hosts' = r.hosts
        /\ aliasLog' = Append(aliasLog, [before |-> hosts, after |-> r.hosts,
                                         readOk |-> readOk, events |-> r.events,
                                         res |-> r.res])
    /\ UNCHANGED <<input, config, pc, stage, attempt, ruleIdx, cmdIdx, result, trace,
                   exitCode, projectEnv, viteCfg, vhostFiles, dockerDirs,
                   paths, envVars, project_name, passes, norm>>

NextAlias == AliasCall

SpecAlias == InitAlias /\ [][NextAlias]_vars

----------------------------------------------------------------------------
(* configure_and_initialize_laravel called again on the project files the  *)
(* previous call left, every call starting from the first rule.             *)

MaxPasses == 2

\* Project names as format_to_kebab_case leaves them, one of them beginning
\* with the host name of the scaffold's APP_URL.
PatchNames == {"foo", "localhost"}

\* Settings as get_app_config returns them; one password holds the
\* character & that sed expands to the matched text.
PatchConfigs == Configs \cup {AppConfig("shop", "p&w", 8080, 3307)}

InitPatch ==
    /\ input \in {ProjectInput(n, v) : n \in PatchNames, v \in LaravelVersions}
    /\ config \in PatchConfigs
    /\ pc = EntryPc(RunStages[2])
    /\ stage = 2
    /\ attempt = 0
    /\ ruleIdx = 1
    /\ cmdIdx = 1
    /\ result = NoResult
    /\ trace = <<>>
    /\ exitCode = -1
    /\ projectEnv = ScaffoldEnv(input.laravel_version)
    /\ viteCfg = ScaffoldVite
    /\ vhostFiles = {}
    /\ hosts \in HostsFiles
    /\ dockerDirs = {"."}
    /\ aliasLog = <<>>
    /\ paths = {}
    /\ envVars = NoEnv
    /\ project_name = input.project_name
    /\ passes = <<>>
    /\ norm = <<>>

\* The call returned Ok(()); the function is entered again.
PatchAgain ==
    /\ pc = EntryPc(RunStages[3])
    /\ stage = 3
    /\ Len(passes) + 1 < MaxPasses
    /\ passes' = Append(passes, [env |-> projectEnv, vite |-> viteCfg])
    /\ pc' = EntryPc(RunStages[2])
    /\ stage' = 2
    /\ ruleIdx' = 1
    /\ cmdIdx' = 1
    /\ UNCHANGED <<input, config, attempt, result, trace, exitCode, projectEnv,
                   viteCfg, vhostFiles, hosts, dockerDirs, aliasLog,
                   paths, envVars, project_name, norm>>

NextPatch ==
    \/ SedEnv
    \/ ExecCommand
    \/ SedVite
    \/ PatchAgain

SpecPatch == InitPatch /\ [][NextPatch]_vars

----------------------------------------------------------------------------
(* create_vhost_file called again with the same request, on the files the  *)
(* previous call left.                                                      *)

MaxVhostCalls == 3

\* Where docker directories are: none, the working directory, its parent,
\* or both.
VhostDirSets == DockerDirSets \cup {{".", ".."}}

\* Files that may be under the vhosts directories before the first call: a
\* file of the same name under either root, left by an earlier version of
\* the program, and the file of another host.
PriorVhostFiles(host) ==
    SUBSET {[path |-> "./" \o VHOSTS_DIR \o "/" \o host \o ".conf",
             content |-> "<VirtualHost *:8080>"],
            [path |-> "../" \o VHOSTS_DIR \o "/" \o host \o ".conf",
             content |-> "<VirtualHost *:8080>"],
            [path |-> "./" \o VHOSTS_DIR \o "/bar.test.conf",
             content |-> "<VirtualHost *:80>"]}

InitVhost ==
    /\ input \in {ProjectInput(n, "12") : n \in ProjectNames}
    /\ config = AppConfig(DEFAULT_CONTAINER_NAME, DEFAULT_DB_ROOT_PASSWORD,
                          DEFAULT_SERVER_PORT, DEFAULT_DB_PORT)
    /\ pc = EntryPc(RunStages[3])
    /\ stage = 3
    /\ attempt = 0
    /\ ruleIdx = 1
    /\ cmdIdx = 1
    /\ result = NoResult
    /\ trace = <<>>
    /\ exitCode = -1
    /\ projectEnv = <<>>
    /\ viteCfg = <<>>
    /\ vhostFiles \in PriorVhostFiles(input.project_host)
    /\ hosts = "127.0.0.1 localhost\n"
    /\ dockerDirs \in VhostDirSets
    /\ aliasLog = <<>>
    /\ paths = {}
    /\ envVars = NoEnv
    /\ project_name = input.project_name
    /\ passes = <<[files |-> vhostFiles, result |-> NoResult]>>
    /\ norm = <<>>

\* The call returned, Ok(()) or Err; the function is entered again.  The
\* files it left and the value it returned are recorded.
VhostAgain ==
    /\ pc # EntryPc(RunStages[3])
    /\ Len(passes) < MaxVhostCalls
    /\ passes' = Append(passes, [files |-> vhostFiles,
                                  result |-> IF result = NoResult THEN OkResult
                                             ELSE result])
    /\ pc' = EntryPc(RunStages[3])
    /\ stage' = 3
    /\ result' = NoResult
    /\ UNCHANGED <<input, config, attempt, ruleIdx, cmdIdx, trace, exitCode,
                   projectEnv, viteCfg, vhostFiles, hosts, dockerDirs, aliasLog,
                   paths, envVars, project_name, norm>>

NextVhost ==
    \/ CreateVhostFile
    \/ VhostAgain

SpecVhost == InitVhost /\ [][NextVhost]_vars

----------------------------------------------------------------------------
(* format_to_kebab_case applied to a string and again to its own result.    *)

MaxLen == 5
MaxApplications == 2

\* An upper-case and a lower-case letter, the hyphen, a character that is
\* neither alphanumeric nor whitespace, the space.
KebabAlphabet == {"a", "B", "-", "_", " "}

RECURSIVE StringsUpTo(_)
StringsUpTo(n) ==
    IF n = 0 THEN {""}
    ELSE LET shorter == StringsUpTo(n - 1) IN
         shorter \cup {t \o c : t \in {u \in shorter : Len(u) = n - 1}, c \in KebabAlphabet}

\* Every string over the alphabet up to the length bound, and some longer
\* names with digits and other punctuation.
KebabInputs ==
    StringsUpTo(MaxLen) \cup {"Demo_App!!", "My  Shop 2", "a----b", "--x__y--1"}

InitKebab ==
    /\ norm \in {<<t>> : t \in KebabInputs}
    /\ input = ProjectInput("foo", "12")
    /\ config = AppConfig(DEFAULT_CONTAINER_NAME, DEFAULT_DB_ROOT_PASSWORD,
                          DEFAULT_SERVER_PORT, DEFAULT_DB_PORT)
    /\ pc = "format_to_kebab_case"
    /\ stage = 0
    /\ attempt = 0
    /\ ruleIdx = 1
    /\ cmdIdx = 1
    /\ result = NoResult
    /\ trace = <<>>
    /\ exitCode = -1
    /\ projectEnv = <<>>
    /\ viteCfg = <<>>
    /\ vhostFiles = {}
    /\ hosts = ""
    /\ dockerDirs = {}
    /\ aliasLog = <<>>
    /\ paths = {}
    /\ envVars = NoEnv
    /\ project_name = ""
    /\ passes = <<>>

\* One call, on the last string obtained.
FormatName ==
    /\ Len(norm) <= MaxApplications
    /\ norm' = Append(norm, format_to_kebab_case(norm[Len(norm)]))
    /\ UNCHANGED <<input, config, pc, stage, attempt, ruleIdx, cmdIdx, result, trace,
                   exitCode, projectEnv, viteCfg, vhostFiles, hosts, dockerDirs,
                   aliasLog, paths, envVars, project_name, passes>>

NextKebab == FormatName

SpecKebab == InitKebab /\ [][NextKebab]_vars

----------------------------------------------------------------------------
(* get_app_config on the environments dotenv can leave.                     *)

NameValues == {NoVar, SomeVar(""), SomeVar("  "), SomeVar(" shop ")}

PasswordValues == {NoVar, SomeVar(""), SomeVar("\t"), SomeVar("s3cret")}

PortValues ==
    {NoVar, SomeVar(""), SomeVar("not-a-number"), SomeVar(" 8080 "), SomeVar("65535"),
     SomeVar("65536"), SomeVar("-1"), SomeVar("0"), SomeVar("+80"), SomeVar("08080")}

Environments ==
    {[k \in ConfigKeys |->
        CASE k = "CONTAINER_NAME" -> n
          [] k = "DB_ROOT_PASSWORD" -> p
          [] k = "SERVER_PORT" -> sp
          [] k = "DB_PORT" -> dp] :
     n \in NameValues, p \in PasswordValues, sp \in PortValues, dp \in PortValues}

\* The value config holds before get_app_config has returned.
NoConfig == AppConfig("", "", 0, 0)

InitConfig ==
    /\ envVars \in Environments
    /\ config = NoConfig
    /\ input = ProjectInput("", "")
    /\ pc = "get_app_config"
    /\ stage = 0
    /\ attempt = 0
    /\ ruleIdx = 1
    /\ cmdIdx = 1
    /\ result = NoResult
    /\ trace = <<>>
    /\ exitCode = -1
    /\ projectEnv = <<>>
    /\ viteCfg = <<>>
    /\ vhostFiles = {}
    /\ hosts = ""
    /\ dockerDirs = {}
    /\ aliasLog = <<>>
    /\ paths = {}
    /\ project_name = ""
    /\ passes = <<>>
    /\ norm = <<>>

\* let config = get_app_config()?; the function has no Err return.
GetAppConfig ==
    /\ pc = "get_app_config"
    /\ config' = get_app_config(envVars)
    /\ pc' = "prompt_name"
    /\ UNCHANGED <<input, stage, attempt, ruleIdx, cmdIdx, result, trace, exitCode,
                   projectEnv, viteCfg, vhostFiles, hosts, dockerDirs, aliasLog,
                   paths, envVars, project_name, passes, norm>>

NextConfig == GetAppConfig

SpecConfig == InitConfig /\ [][NextConfig]_vars

----------------------------------------------------------------------------
(* run() from its first statement: ensure_env_file_exists, the load of the  *)
(* configuration file, get_app_config and get_user_input, then the          *)
(* pipeline.  One action per blocking operation: a file copy, a line read   *)
(* from the terminal.                                                       *)

ENV_FILE == ".env"
EXAMPLE_ENV_FILE == "env.example"
DEFAULT_LARAVEL_VERSION == 12
MINIMAL_LARAVEL_VERSION == 10

\* Reads of the terminal allowed before a prompt stops being asked again.
MaxReads == 2

\* Faulty variant: the parent directory is not searched.
find_env_path_cwd_only(filename) ==
    IF filename \in paths THEN filename ELSE "None"

\* The file in the working directory, else in its parent, else None.
find_env_path(filename) ==
    IF filename \in paths THEN filename
    ELSE IF ("../" \o filename) \in paths THEN "../" \o filename
    ELSE "None"

\* Path::with_file_name on the two paths find_env_path returns.
with_file_name(path, name) ==
    IF StartsWith(path, "../") THEN "../" \o name ELSE name

\* What io::stdin().read_line gives: an error, or a line (the empty string
\* at end of input).
ReadLine(lines) ==
    {[ok |-> FALSE, line |-> ""]} \cup {[ok |-> TRUE, line |-> l] : l \in lines}

ReadEvent(prompt, r) ==
    Event("read_line", prompt, IF r.ok THEN ExitOk ELSE ExitFail)

\* A prompt that got no usable answer is asked again.
AskAgain == Cardinality({i \in 1..Len(trace) : trace[i].cmd = "read_line"}) < MaxReads

\* The environment after dotenv::from_path(&env_path).ok(): the keys of the
\* file, or nothing new when the file has none of them or cannot be loaded.
DotenvResults ==
    {NoEnv,
     [k \in ConfigKeys |->
         CASE k = "CONTAINER_NAME" -> SomeVar("shop")
           [] k = "DB_ROOT_PASSWORD" -> SomeVar("s3cret")
           [] k = "SERVER_PORT" -> SomeVar("not-a-number")
           [] k = "DB_PORT" -> SomeVar("3307")]}

\* ensure_env_file_exists returned Ok(env_path): the file is loaded and
\* get_app_config is called.
EnvFileReady ==
    /\ envVars' \in DotenvResults
    /\ Goto("get_app_config")

\* The two calls of find_env_path, then ensure_env_file_exists up to its
\* return or to its prompt.
EnsureEnvFile ==
    /\ pc = "ensure_env_file_exists"
    /\ LET env_path_option == find_env_path(ENV_FILE)
           example_env_path_option == find_env_path(EXAMPLE_ENV_FILE)
           found == <<Event("find_env_path", ENV_FILE,
                            IF env_path_option # "None" THEN ExitOk ELSE ExitFail),
                      Event("find_env_path", EXAMPLE_ENV_FILE,
                            IF example_env_path_option # "None" THEN ExitOk ELSE ExitFail)>>
       IN  IF env_path_option # "None"
           THEN /\ Log(found)
                /\ EnvFileReady
                /\ paths' = paths
           ELSE IF example_env_path_option = "None"
           THEN /\ Log(found)
                /\ ReturnErr(Err("Io", "Nem o .env, nem o . env.example foram encontrados. "
                                       \o "Verifique a estrutura do projeto."))
                /\ UNCHANGED <<paths, envVars>>
           ELSE \E o \in {ExitOk, ExitFail} :
                /\ Log(found \o <<Event("fs::copy", example_env_path_option, o)>>)
                /\ envVars' = envVars
                /\ IF o.success
                   THEN /\ paths' = paths \cup {with_file_name(example_env_path_option, ".env")}
                        /\ Goto("confirm_env")
                   ELSE /\ paths' = paths
                        /\ ReturnErr(Err("Io", "fs::copy"))
    /\ UNCHANGED <<input, config, attempt, ruleIdx, cmdIdx, exitCode, projectEnv,
                   viteCfg, vhostFiles, hosts, dockerDirs, aliasLog,
                   project_name, passes, norm>>

ConfirmLines == {"", "Y\n", "n\n", "x\n"}

\* One turn of the loop that asks whether to go on with the copied file.
ConfirmEnv ==
    /\ pc = "confirm_env"
    /\ \E r \in ReadLine(ConfirmLines) :
        LET choice == to_lowercase(Trim(r.line)) IN
        IF ~r.ok
        THEN /\ Log(<<ReadEvent("confirm .env", r)>>)
             /\ ReturnErr(Err("Io", "read_line"))
             /\ envVars' = envVars
        ELSE IF choice = "" \/ choice = "y"
        THEN /\ Log(<<ReadEvent("confirm .env", r)>>)
             /\ EnvFileReady
        ELSE IF choice = "n"
        THEN \E r2 \in ReadLine({"\n"}) :
             /\ Log(<<ReadEvent("confirm .env", r), ReadEvent("press enter", r2)>>)
             /\ envVars' = envVars
             /\ IF r2.ok
                THEN ReturnErr(Err("Interrupted",
                                   "O usuário optou por configurar o .env manualmente."))
                ELSE ReturnErr(Err("Io", "read_line"))
        ELSE /\ AskAgain
             /\ Log(<<ReadEvent("confirm .env", r)>>)
             /\ Goto("confirm_env")
             /\ envVars' = envVars
    /\ UNCHANGED <<input, config, attempt, ruleIdx, cmdIdx, exitCode, projectEnv,
                   viteCfg, vhostFiles, hosts, dockerDirs, aliasLog,
                   paths, project_name, passes, norm>>

NameLines == {"\n", "!!\n", "Foo\n", "Demo_App!!\n"}

\* Faulty variant: a name whose directory exists is accepted all the same.
PromptName_existing_accepted ==
    /\ pc = "prompt_name"
    /\ \E r \in ReadLine(NameLines) :
        LET raw_name == to_lowercase(Trim(r.line))
            name == format_to_kebab_case(raw_name)
            project_path_check == "../src/" \o name
        IN  IF ~r.ok
            THEN /\ Log(<<ReadEvent("project name", r)>>)
                 /\ ReturnErr(Err("Io", "read_line"))
                 /\ project_name' = project_name
            ELSE IF raw_name = "" \/ name = ""
            THEN /\ AskAgain
                 /\ Log(<<ReadEvent("project name", r)>>)
                 /\ Goto("prompt_name")
                 /\ project_name' = project_name
            ELSE /\ Log(<<ReadEvent("project name", r),
                          Event("exists", project_path_check,
                                IF project_path_check \in paths THEN ExitOk ELSE ExitFail)>>)
                 /\ Goto("prompt_version")
                 /\ project_name' = name
    /\ UNCHANGED <<input, config, attempt, ruleIdx, cmdIdx, exitCode, projectEnv,
                   viteCfg, vhostFiles, hosts, dockerDirs, aliasLog,
                   paths, envVars, passes, norm>>

\* One turn of 'project_loop up to the check of the project directory.
PromptName ==
    /\ pc = "prompt_name"
    /\ \E r \in ReadLine(NameLines) :
        LET raw_name == to_lowercase(Trim(r.line))
            name == format_to_kebab_case(raw_name)
            project_path_check == "../src/" \o name
        IN  IF ~r.ok
            THEN /\ Log(<<ReadEvent("project name", r)>>)
                 /\ ReturnErr(Err("Io", "read_line"))
                 /\ project_name' = project_name
            ELSE IF raw_name = "" \/ name = ""
            THEN /\ AskAgain
                 /\ Log(<<ReadEvent("project name", r)>>)
                 /\ Goto("prompt_name")
                 /\ project_name' = project_name
            ELSE IF project_path_check \in paths
            THEN /\ Log(<<ReadEvent("project name", r),
                          Event("exists", project_path_check, ExitOk)>>)
                 /\ Goto("prompt_retry")
                 /\ project_name' = project_name
            ELSE /\ Log(<<ReadEvent("project name", r),
                          Event("exists", project_path_check, ExitFail)>>)
                 /\ Goto("prompt_version")
                 /\ project_name' = name
    /\ UNCHANGED <<input, config, attempt, ruleIdx, cmdIdx, exitCode, projectEnv,
                   viteCfg, vhostFiles, hosts, dockerDirs, aliasLog,
                   paths, envVars, passes, norm>>

RetryLines == {"\n", "N\n", "x\n"}

\* One turn of the loop that asks whether to try another name.
PromptRetry ==
    /\ pc = "prompt_retry"
    /\ \E r \in ReadLine(RetryLines) :
        LET choice == to_lowercase(Trim(r.line)) IN
        /\ Log(<<ReadEvent("another name", r)>>)
        /\ IF ~r.ok
           THEN ReturnErr(Err("Io", "read_line"))
           ELSE IF choice = "" \/ choice = "y"
           THEN AskAgain /\ Goto("prompt_name")
           ELSE IF choice = "n"
           THEN ReturnErr(Err("Interrupted", "O usuário optou por encerrar a aplicação."))
           ELSE AskAgain /\ Goto("prompt_retry")
    /\ UNCHANGED <<input, config, attempt, ruleIdx, cmdIdx, exitCode, projectEnv,
                   viteCfg, vhostFiles, hosts, dockerDirs, aliasLog,
                   paths, envVars, project_name, passes, norm>>

VersionLines == {"\n", " 10 \n", "9\n", "abc\n"}

\* One turn of the version loop; with a usable answer get_user_input
\* returns and the pipeline starts.
PromptVersion ==
    /\ pc = "prompt_version"
    /\ \E r \in ReadLine(VersionLines) :
        LET version_str == Trim(r.line)
            parsed == ParseUnsigned(version_str, U8_MAX)
        IN  /\ Log(<<ReadEvent("laravel version", r)>>)
            /\ IF ~r.ok
               THEN /\ ReturnErr(Err("Io", "read_line"))
                    /\ input' = input
               ELSE IF version_str = ""
               THEN /\ input' = ProjectInput(project_name,
                                             PortToString(DEFAULT_LARAVEL_VERSION))
                    /\ pc' = EntryPc(RunStages[1])
                    /\ stage' = 1
                    /\ result' = result
               ELSE IF parsed.ok /\ parsed.val >= MINIMAL_LARAVEL_VERSION
               THEN /\ input' = ProjectInput(project_name, PortToString(parsed.val))
                    /\ pc' = EntryPc(RunStages[1])
                    /\ stage' = 1
                    /\ result' = result
               ELSE /\ AskAgain
                    /\ Goto("prompt_version")
                    /\ input' = input
    /\ UNCHANGED <<config, attempt, ruleIdx, cmdIdx, exitCode, projectEnv,
                   viteCfg, vhostFiles, hosts, dockerDirs, aliasLog,
                   paths, envVars, project_name, passes, norm>>

\* Where .env and env.example are, and whether ../src/foo exists.
PathSets ==
    {{},
     {".env", "env.example"},
     {"../.env", "../src/foo"},
     {"../env.example"},
     {"env.example", "../src/foo"}}

InitRun ==
    /\ paths \in PathSets
    /\ envVars = NoEnv
    /\ config = NoConfig
    /\ input = ProjectInput("", "")
    /\ project_name = ""
    /\ pc = "ensure_env_file_exists"
    /\ stage = 0
    /\ attempt = 0
    /\ ruleIdx = 1
    /\ cmdIdx = 1
    /\ result = NoResult
    /\ trace = <<>>
    /\ exitCode = -1
    /\ projectEnv = <<>>
    /\ viteCfg = <<>>
    /\ vhostFiles = {}
    /\ hosts = "127.0.0.1 localhost\n"
    /\ dockerDirs = {".."}
    /\ aliasLog = <<>>
    /\ passes = <<>>
    /\ norm = <<>>

NextRun ==
    \/ EnsureEnvFile
    \/ ConfirmEnv
    \/ GetAppConfig
    \/ PromptName
    \/ PromptRetry
    \/ PromptVersion
    \/ Next

SpecRun == InitRun /\ [][NextRun]_vars

----------------------------------------------------------------------------
(* Properties.  They are stated over trace, the record of what the run did  *)
(* to its environment, and over the files, not over pc.                     *)

Succeeded(e) == e.out.launched /\ e.out.success

\* A status query whose answer lists the container.
ReportsRunning(e) ==
    e.cmd = "docker ps" /\ e.out.launched /\ Trim(e.out.stdout) # ""

\* A status query that ran and listed nothing.
ReportsNotRunning(e) ==
    e.cmd = "docker ps" /\ e.out.launched /\ Trim(e.out.stdout) = ""

Indices(cmd) == {i \in 1..Len(trace) : trace[i].cmd = cmd}

Count(cmd) == Cardinality(Indices(cmd))

\* Positions of the sleeps of the poll loop (the settle delay after the
\* restart is the sleep of 1 second).
PollSleeps == {i \in Indices("sleep") : trace[i].arg = "3"}

\* Positions of the status queries made after docker compose up.
Polls ==
    {i \in Indices("docker ps") : \E u \in Indices("docker compose up -d") : u < i}

\* The keys the seven rules rewrite, in the documented order: base URL,
\* DB driver, DB port, DB name, DB host, DB username, DB password.
RuleKeys ==
    <<"s/APP_URL=", "s/DB_CONNECTION=", "s/# DB_PORT=", "s/# DB_DATABASE=",
      "s/# DB_HOST=", "s/# DB_USERNAME=", "s/# DB_PASSWORD=">>

\* The place of an operation in the documented order of the steps:
\* 1 readiness, 2 scaffold, 3..9 the substitution rules, 10 config-clear,
\* 11 migrate, 12 and 13 the dependency installs (runtime container, then
\* asset-build container), 14 asset-build config patch, 15 virtual-host
\* file, 16 host alias, 17 proxy restart; 0 for anything else.
Rank(e) ==
    CASE e.cmd \in {"docker ps", "docker compose up -d"} -> 1
      [] e.cmd = "sleep" -> IF e.arg = "3" THEN 1 ELSE 17
      [] e.cmd = "composer create-project" -> 2
      [] e.cmd = "sed .env" ->
            LET ks == {k \in 1..Len(RuleKeys) : StartsWith(e.arg, RuleKeys[k])} IN
            IF Cardinality(ks) = 1 THEN 2 + (CHOOSE k \in ks : TRUE) ELSE 0
      [] e.cmd = "docker exec" ->
            LET inPhp == StartsWith(e.arg, config.php_container_name \o " sh -c cd ")
                inNode == StartsWith(e.arg, config.node_container_name \o " sh -c cd ")
            IN  IF inPhp /\ EndsWith(e.arg, " && php artisan config:clear") THEN 10
                ELSE IF inPhp /\ EndsWith(e.arg, " && php artisan migrate --force") THEN 11
                ELSE IF inPhp /\ EndsWith(e.arg, " && composer update") THEN 12
                ELSE IF inNode /\ EndsWith(e.arg, " && npm install") THEN 13
                ELSE 0
      [] e.cmd = "sed vite.config.js" -> 14
      [] e.cmd \in {"find_project_root", "fs::write"} -> 15
      [] e.cmd \in {"fs::read_to_string", "sudo"} -> 16
      [] e.cmd = "docker compose restart apache" -> 17
      [] OTHER -> 0

\* Steps made of more than one operation.
CompositeRanks == {1, 15, 16, 17}

\* The step that trace[i] belongs to has completed successfully with trace[i].
CompletedAt(i) ==
    LET e == trace[i] IN
    CASE Rank(e) = 1 -> ReportsRunning(e)
      [] Rank(e) = 15 -> e.cmd = "fs::write" /\ Succeeded(e)
      [] Rank(e) = 16 ->
            \/ e.cmd = "sudo" /\ Succeeded(e)
            \/ /\ e.cmd = "fs::read_to_string"
               /\ Succeeded(e)
               /\ Contains(hosts, input.project_host)
      [] OTHER -> Succeeded(e)

\* C1: the external steps happen only in the documented order: the run
\* starts with the readiness check, every operation belongs either to the
\* step of the operation before it or to the next step in the order, a step
\* is entered only when the step before it has completed successfully, a
\* step made of a single command is not run twice, and a run that returns
\* Ok has reached the last step.
C1_StepsInOrder ==
    /\ \A i \in 1..Len(trace) : Rank(trace[i]) # 0
    /\ trace # <<>> => Rank(trace[1]) = 1
    /\ result.kind = "Ok" => (trace # <<>> /\ Rank(trace[Len(trace)]) = 17)
    /\ \A i \in 1..(Len(trace) - 1) :
        LET a == Rank(trace[i])
            b == Rank(trace[i + 1])
        IN  /\ b \in {a, a + 1}
            /\ b = a => a \in CompositeRanks
            /\ b = a + 1 => CompletedAt(i)

\* A run that went through every step, the container having to be started
\* and the alias having to be appended.
C1_Witness ==
    /\ pc = "exited"
    /\ exitCode = 0
    /\ {Rank(trace[i]) : i \in 1..Len(trace)} = 1..17
    /\ Count("docker compose up -d") = 1
    /\ Count("sudo") = 1

\* The last operation performed made its stage fail.
StageFailed ==
    /\ trace # <<>>
    /\ LET n == Len(trace)
           e == trace[n]
       IN  CASE e.cmd = "docker ps" ->
                    /\ n \in Polls
                    /\ \/ ~e.out.launched
                       \/ /\ ReportsNotRunning(e)
                          /\ Cardinality(Polls) = 3
             [] e.cmd \in {"sleep", "fs::read_to_string"} -> FALSE
             [] OTHER -> ~Succeeded(e)

\* C2: once a stage has failed, the run's result is that error, no further
\* operation is performed, and the project files, the virtual-host files and
\* the alias file stay as they are.
C2_FailureStopsWithoutRollback ==
    [][StageFailed =>
         /\ result.kind \in {"Io", "Docker", "Validation"}
         /\ trace' = trace
         /\ UNCHANGED <<projectEnv, viteCfg, vhostFiles, hosts>>
         /\ result' = result]_vars

\* The proxy restart failed after every earlier stage left its effect; the
\* process has exited.
C2_Witness ==
    /\ StageFailed
    /\ pc = "exited"
    /\ exitCode = 1
    /\ trace[Len(trace)].cmd = "docker compose restart apache"
    /\ Contains(projectEnv[2], input.project_host)
    /\ vhostFiles # {}
    /\ \E i \in Indices("sudo") : Succeeded(trace[i])
    /\ EndsWith(hosts, "127.0.0.1 " \o input.project_host \o "\n")

\* C3: when the first status query reports the container running, the
\* readiness check is over with that one query: no further status query, no
\* docker compose up, no sleep of the poll loop, and the run goes on to the
\* scaffold command.
C3_RunningAtFirstQuery ==
    (trace # <<>> /\ ReportsRunning(trace[1])) =>
        /\ Count("docker ps") = 1
        /\ Count("docker compose up -d") = 0
        /\ PollSleeps = {}
        /\ Polls = {}
        /\ Len(trace) = 1 => (pc = "create_project" /\ result = NoResult)
        /\ Len(trace) >= 2 => trace[2].cmd = "composer create-project"

C3_Witness ==
    /\ trace # <<>>
    /\ ReportsRunning(trace[1])
    /\ Count("composer create-project") = 1
    /\ pc = "exited"

\* docker compose up succeeded and every status query made since reported
\* the container not running.
StartedNeverRunning ==
    /\ \E u \in Indices("docker compose up -d") : Succeeded(trace[u])
    /\ \A i \in Polls : ReportsNotRunning(trace[i])

ExhaustionError ==
    Err("Docker", "O contêiner PHP falhou ao iniciar após max_attempts tentativas.")

\* C4: when docker compose up succeeds and every later status query reports
\* the container not running, the readiness check makes exactly 3 status
\* queries after the start and then fails with the poll-exhaustion error:
\* no error before the third, nothing after it, and the scaffold command is
\* never run.
C4_PollExhaustion ==
    StartedNeverRunning =>
        /\ Cardinality(Polls) <= 3
        /\ Count("composer create-project") = 0
        /\ Cardinality(Polls) < 3 => result = NoResult
        /\ Cardinality(Polls) = 3 =>
              /\ result = ExhaustionError
              /\ trace[Len(trace)].cmd = "docker ps"
        /\ pc \in {"main", "exited"} => Cardinality(Polls) = 3

C4_Witness ==
    /\ StartedNeverRunning
    /\ ReportsNotRunning(trace[1])
    /\ Cardinality(Polls) = 3
    /\ Cardinality(PollSleeps) = 3
    /\ result = ExhaustionError
    /\ exitCode = 1

\* C5: when docker compose up fails, by launch failure or by non-zero exit,
\* the run ends there with a Docker error: the command is not run a second
\* time, and no status query and no sleep follows it.
C5_StartFailureAborts ==
    \A u \in Indices("docker compose up -d") :
        ~Succeeded(trace[u]) =>
            /\ u = Len(trace)
            /\ result.kind = "Docker"
            /\ Count("docker compose up -d") = 1
            /\ Polls = {}
            /\ PollSleeps = {}

\* docker compose up ran and exited unsuccessfully; the process has exited.
C5_Witness ==
    /\ pc = "exited"
    /\ \E u \in Indices("docker compose up -d") :
          trace[u].out.launched /\ ~trace[u].out.success

\* C6 (as claimed): a status query of the poll loop that cannot be launched
\* or that exits unsuccessfully ends the run at once with a Docker error.
C6_QueryFailureAborts ==
    \A i \in Polls :
        (~trace[i].out.launched \/ ~trace[i].out.success) =>
            /\ i = Len(trace)
            /\ result.kind = "Docker"

IsSedEnv(e) == e.cmd = "sed .env"

\* The substitution commands run so far, in the order run.
SedEvents == SelectSeq(trace, IsSedEnv)

\* .env after the first n of the commands seds, each applied once, in the
\* order run, to the scaffolded file.
RECURSIVE RulesApplied(_, _)
RulesApplied(seds, n) ==
    IF n = 0 THEN ScaffoldEnv(input.laravel_version)
    ELSE SedFile(seds[n].arg, RulesApplied(seds, n - 1))

\* The k-th substitution command run is the first that failed.
FirstFailure(seds, k) ==
    /\ Len(seds) >= k
    /\ ~Succeeded(seds[k])
    /\ \A j \in 1..(k - 1) : Succeeded(seds[j])

\* What holds when rule k is the first to fail, whatever the error says:
\* the commands run are rules 1..k in the declared order, once each, none
\* after rule k; the run ends with a Docker error; .env holds rules 1..k-1.
RuleFailureAborts(seds, k) ==
    /\ Len(seds) = k
    /\ \A j \in 1..k : StartsWith(seds[j].arg, RuleKeys[j])
    /\ result.kind = "Docker"
    /\ projectEnv = RulesApplied(seds, k - 1)

\* C7 (as claimed): ... and the error names rule k, however rule k failed.
C7_ErrorAlwaysNamesRule ==
    LET seds == SedEvents IN
    \A k \in 1..Len(RuleKeys) :
        FirstFailure(seds, k) =>
            /\ RuleFailureAborts(seds, k)
            /\ Contains(result.msg, seds[k].arg)

\* C7 (amended): for every k in 1..7, if rule k is the first to fail, rules
\* 1..k-1 have been run once each in the declared order, rules k+1..7 are
\* never attempted, the run ends with a Docker error and rules 1..k-1 stay
\* applied to .env; the error names rule k when the command ran and exited
\* unsuccessfully, and is the launch error, which does not name the rule,
\* when the command could not be launched.
C7_RuleFailure ==
    LET seds == SedEvents IN
    \A k \in 1..Len(RuleKeys) :
        FirstFailure(seds, k) =>
            /\ RuleFailureAborts(seds, k)
            /\ IF seds[k].out.launched
               THEN EndsWith(result.msg, ": '" \o seds[k].arg \o "'")
               ELSE /\ result.msg = "Falha ao executar sed para .env"
                    /\ ~Contains(result.msg, seds[k].arg)

\* Rule 4 exited unsuccessfully: rules 1..3 are in .env, the keys of rules
\* 5..7 are still commented out, and the process has exited.
C7_Witness ==
    /\ FirstFailure(SedEvents, 4)
    /\ SedEvents[4].out.launched
    /\ pc = "exited"
    /\ input.laravel_version = "12"
    /\ projectEnv[2] = "APP_URL=http://" \o input.project_host
    /\ projectEnv[3] = "DB_CONNECTION=mariadb"
    /\ projectEnv[5] = "DB_PORT=" \o PortToString(config.db_port)
    /\ projectEnv[6] = "# DB_DATABASE=laravel"
    /\ projectEnv[8] = "# DB_PASSWORD="

SingleCommands ==
    {"docker compose up -d", "composer create-project", "sed vite.config.js",
     "sudo", "docker compose restart apache"}

\* C8: apart from the status query, no external command is run twice in a
\* run: docker compose up, the scaffold, the asset-build config patch, the
\* privileged append and the proxy restart at most once, every substitution
\* rule and every in-container command at most once; after the proxy
\* restart nothing is run but its settle delay.
C8_NoRetry ==
    /\ \A c \in SingleCommands : Count(c) <= 1
    /\ \A c \in {"sed .env", "docker exec"} :
        \A i, j \in Indices(c) : i # j => trace[i].arg # trace[j].arg
    /\ \A r \in Indices("docker compose restart apache") :
        \A i \in (r + 1)..Len(trace) :
            trace[i].cmd = "sleep" /\ trace[i].arg = "1"

\* The proxy restart failed and the process has exited: the restart was run
\* once, and before it docker compose up and the three polls.
C8_Witness ==
    /\ pc = "exited"
    /\ exitCode = 1
    /\ Count("docker compose restart apache") = 1
    /\ ~Succeeded(trace[Len(trace)])
    /\ Cardinality(Polls) = 3
    /\ Count("sudo") = 1

----------------------------------------------------------------------------
(* Properties of update_etc_hosts called in succession (SpecAlias).         *)

HasSudo(call) == \E i \in 1..Len(call.events) : call.events[i].cmd = "sudo"

\* C9: a call that reads the alias file and finds the host string anywhere
\* in it returns Ok without running the privileged append and leaves the
\* file as it is.
C9_ListedHostNotAppended ==
    \A n \in 1..Len(aliasLog) :
        LET call == aliasLog[n] IN
        (call.readOk /\ Contains(call.before, input.project_host)) =>
            /\ call.res = OkResult
            /\ ~HasSudo(call)
            /\ call.after = call.before

\* The host oo.test is looked up in a file that lists only foo.test.
C9_Witness ==
    /\ input.project_host = "oo.test"
    /\ \E n \in 1..Len(aliasLog) :
        /\ aliasLog[n].readOk
        /\ Contains(aliasLog[n].before, "foo.test")
        /\ ~Contains(aliasLog[n].before, " oo.test")
        /\ aliasLog[n].after = aliasLog[n].before

\* Every privileged append attempted in the first n calls succeeded.
AppendsSucceeded(n) ==
    \A m \in 1..n :
        \A i \in 1..Len(aliasLog[m].events) :
            aliasLog[m].events[i].cmd = "sudo" => Succeeded(aliasLog[m].events[i])

AliasLine == "127.0.0.1 " \o input.project_host \o "\n"

\* C10 (as claimed): whatever the alias file, after the second and later
\* calls the file is as the first call left it.
C10_Idempotent ==
    \A n \in 2..Len(aliasLog) :
        AppendsSucceeded(n) => aliasLog[n].after = aliasLog[1].after

\* C10 (amended): registering the same host any number of times in
\* succession, every attempted append succeeding and the alias file being
\* readable at every call after the first, adds at most one line
\* "127.0.0.1 <host>": the file after the second and later calls equals the
\* file after the first.  (A call that cannot read the file appends the line
\* again.)
C10_IdempotentWhenReadable ==
    \A n \in 2..Len(aliasLog) :
        (AppendsSucceeded(n) /\ \A m \in 2..n : aliasLog[m].readOk) =>
            /\ aliasLog[n].after = aliasLog[1].after
            /\ aliasLog[n].after \in {aliasLog[1].before,
                                      aliasLog[1].before \o AliasLine}

\* The first call appended the line, two more calls read the file and left
\* it alone.
C10_Witness ==
    /\ Len(aliasLog) = 3
    /\ HasSudo(aliasLog[1])
    /\ aliasLog[1].after = aliasLog[1].before \o AliasLine
    /\ aliasLog[2].readOk
    /\ aliasLog[3].readOk
    /\ hosts = aliasLog[1].after

\* The privileged appends of a call.
SudoEvents(call) == SelectSeq(call.events, LAMBDA e : e.cmd = "sudo")

\* C11: a call that cannot read the alias file still runs the privileged
\* append of the line 127.0.0.1 <host>, once, and returns what the append
\* gives: Ok and the line added when it succeeds, an error and the file
\* untouched when it does not.
C11_UnreadableFileStillAppends ==
    \A n \in 1..Len(aliasLog) :
        LET call == aliasLog[n] IN
        ~call.readOk =>
            /\ Len(SudoEvents(call)) = 1
            /\ SudoEvents(call)[1].arg =
                   "echo '127.0.0.1 " \o input.project_host \o "' >> /etc/hosts"
            /\ (call.res = OkResult) <=> Succeeded(SudoEvents(call)[1])
            /\ call.res.kind \in {"Ok", "Io", "Validation"}
            /\ call.after = IF Succeeded(SudoEvents(call)[1])
                            THEN call.before \o AliasLine
                            ELSE call.before

\* Two calls could not read the file: one appended (the host being listed
\* already), one had its append refused.
C11_Witness ==
    \E n, m \in 1..Len(aliasLog) :
        /\ ~aliasLog[n].readOk
        /\ Contains(aliasLog[n].before, input.project_host)
        /\ aliasLog[n].res = OkResult
        /\ ~aliasLog[m].readOk
        /\ aliasLog[m].res.kind = "Validation"

----------------------------------------------------------------------------
(* Failure of the privileged append within a run (Spec).                    *)

\* The run has performed the privileged append and it failed.
AppendFailed == \E i \in Indices("sudo") : ~Succeeded(trace[i])

\* C12 (as claimed): every failed append, launched or not, gives a
\* Validation error and the run stops before the proxy restart.
C12_AppendFailureIsValidation ==
    AppendFailed =>
        /\ result.kind = "Validation"
        /\ Count("docker compose restart apache") = 0

\* C12 (amended): a failed append is the last operation of the run and the
\* proxy restart is not reached; the error is a Validation error when sudo
\* ran and exited unsuccessfully, an Io error when sudo could not be
\* launched; the process exits with status 1.
C12_AppendFailureStops ==
    \A i \in Indices("sudo") :
        ~Succeeded(trace[i]) =>
            /\ i = Len(trace)
            /\ Count("docker compose restart apache") = 0
            /\ result.kind = IF trace[i].out.launched THEN "Validation" ELSE "Io"
            /\ pc \in {"main", "exited"}
            /\ pc = "exited" => exitCode = 1

\* Every earlier stage succeeded, the append was refused (the privilege
\* prompt cancelled) and the process has exited.
C12_Witness ==
    /\ pc = "exited"
    /\ exitCode = 1
    /\ trace[Len(trace)].cmd = "sudo"
    /\ trace[Len(trace)].out.launched
    /\ ~trace[Len(trace)].out.success
    /\ result.kind = "Validation"
    /\ vhostFiles # {}

----------------------------------------------------------------------------
(* Patching applied again to patched files (SpecPatch).                     *)

\* A later call of configure_and_initialize_laravel has returned Ok.
PatchedAgain == pc = EntryPc(RunStages[3]) /\ passes # <<>>

SedSpecial == {"/", "&", "\\", "\n"}

SedLiteral(v) == \A i \in 1..Len(v) : Ch(v, i) \notin SedSpecial

----------------------------------------------------------------------------
(* Failures and the end of the run (Spec).                                  *)

\* The operation could not be launched or did not end successfully.
Failed(e) == ~e.out.launched \/ ~e.out.success

\* C14 (as claimed): every failed operation of the pipeline, the read of the
\* alias file excepted, is the last operation of the run and the run returns
\* an error and exits with a non-zero status.
C14_NoFailureSwallowed ==
    \A i \in 1..Len(trace) :
        (Failed(trace[i]) /\ trace[i].cmd # "fs::read_to_string") =>
            /\ i = Len(trace)
            /\ result.kind \in {"Io", "Docker", "Validation", "Interrupted"}
            /\ pc = "exited" => exitCode # 0

----------------------------------------------------------------------------
(* Settings resolution (SpecConfig).                                        *)

\* get_app_config has returned.
Resolved == pc # "get_app_config"

Blank(v) == \A i \in 1..Len(v) : Ch(v, i) \in Whitespace

AllDigits(v) == v # "" /\ \A i \in 1..Len(v) : Ch(v, i) \in CharsOf("0123456789")

DigitOf(c) == CHOOSE d \in 0..9 : DecimalDigits[d + 1] = c

\* a and b are digit strings of the same length and a is not the greater.
DigitsLeq(a, b) ==
    \/ a = b
    \/ \E i \in 1..Len(a) :
        /\ SubSeq(a, 1, i - 1) = SubSeq(b, 1, i - 1)
        /\ DigitOf(Ch(a, i)) < DigitOf(Ch(b, i))

\* The digits of a number text without its sign and its leading zeros.
RECURSIVE StripZeros(_)
StripZeros(v) ==
    IF Len(v) > 1 /\ Ch(v, 1) = "0" THEN StripZeros(DropFirst(v, 1)) ELSE v

Unsigned(v) == IF StartsWith(v, "+") THEN DropFirst(v, 1) ELSE v

\* The text writes a decimal number of at most 65535.
IsPortText(v) ==
    /\ AllDigits(Unsigned(v))
    /\ LET d == StripZeros(Unsigned(v)) IN
       \/ Len(d) < 5
       \/ Len(d) = 5 /\ DigitsLeq(d, "65535")

\* The port chosen for the text of a key, spelled out: the number the text
\* writes when it is a port number, the default otherwise.
PortChosen(v, port, default) ==
    IF v.set /\ IsPortText(Trim(v.val))
    THEN PortToString(port) = StripZeros(Unsigned(Trim(v.val)))
    ELSE port = default

\* C18: resolution always returns; each setting is decided by its own key:
\* a key that is missing or blank gives the compiled default, a port key
\* whose text is not a port number gives the default port, a valid value is
\* the one used (trimmed); with no key set the result is the five defaults;
\* no field is empty.
C18_SettingsFallBack ==
    Resolved =>
        /\ result = NoResult
        /\ config.php_container_name =
              (IF envVars["CONTAINER_NAME"].set /\ ~Blank(envVars["CONTAINER_NAME"].val)
               THEN Trim(envVars["CONTAINER_NAME"].val) ELSE "dev_container") \o "_php"
        /\ config.node_container_name =
              (IF envVars["CONTAINER_NAME"].set /\ ~Blank(envVars["CONTAINER_NAME"].val)
               THEN Trim(envVars["CONTAINER_NAME"].val) ELSE "dev_container") \o "_node"
        /\ config.db_root_password =
              IF envVars["DB_ROOT_PASSWORD"].set /\ ~Blank(envVars["DB_ROOT_PASSWORD"].val)
              THEN Trim(envVars["DB_ROOT_PASSWORD"].val) ELSE "password"
        /\ PortChosen(envVars["SERVER_PORT"], config.server_port, 8000)
        /\ PortChosen(envVars["DB_PORT"], config.db_port, 3306)
        /\ envVars = NoEnv =>
              config = [php_container_name |-> "dev_container_php",
                        node_container_name |-> "dev_container_node",
                        db_root_password |-> "password",
                        server_port |-> 8000,
                        db_port |-> 3306]
        /\ config.php_container_name \notin {"", "_php"}
        /\ config.node_container_name \notin {"", "_node"}
        /\ config.db_root_password # ""
        /\ config.server_port \in 0..65535
        /\ config.db_port \in 0..65535

\* SERVER_PORT=not-a-number and a blank container name next to a valid
\* DB_PORT and password: the two bad values fall back, the two good ones
\* are used.
C18_Witness ==
    /\ Resolved
    /\ envVars["SERVER_PORT"] = SomeVar("not-a-number")
    /\ envVars["CONTAINER_NAME"] = SomeVar("  ")
    /\ envVars["DB_PORT"] = SomeVar(" 8080 ")
    /\ envVars["DB_ROOT_PASSWORD"] = SomeVar("s3cret")
    /\ config.server_port = 8000
    /\ config.db_port = 8080
    /\ config.php_container_name = "dev_container_php"
    /\ config.db_root_password = "s3cret"

----------------------------------------------------------------------------
(* Normalization of the project identifier (SpecKebab).                     *)

\* C19: normalizing a normalized identifier gives the same string.
C19_NormalizeIdempotent ==
    \A i \in 3..Len(norm) : norm[i] = norm[2]

\* An input that normalization changes has been normalized twice.
C19_Witness ==
    /\ Len(norm) = 3
    /\ norm[1] = "a-_-B"
    /\ norm[2] = "a-b"
    /\ norm[3] = "a-b"

KebabLetters == CharsOf(LowerLetters) \cup CharsOf("0123456789")

\* Positions of t where a maximal run of alphanumerics starts, ends.
RunStarts(t) ==
    {i \in 1..Len(t) : /\ is_ascii_alphanumeric(Ch(t, i))
                       /\ (i = 1 \/ ~is_ascii_alphanumeric(Ch(t, i - 1)))}

RunEnd(t, i) ==
    CHOOSE j \in i..Len(t) :
        /\ \A k \in i..j : is_ascii_alphanumeric(Ch(t, k))
        /\ (j = Len(t) \/ ~is_ascii_alphanumeric(Ch(t, j + 1)))

\* out is the alphanumeric runs of t from position from on, in lower case,
\* with one hyphen between two neighbours.
RECURSIVE IsRunsFrom(_, _, _)
IsRunsFrom(out, t, from) ==
    LET starts == {i \in RunStarts(t) : i >= from} IN
    IF starts = {} THEN out = ""
    ELSE LET i == CHOOSE a \in starts : \A b \in starts : a <= b
             j == RunEnd(t, i)
             run == to_lowercase(SubSeq(t, i, j))
             last == \A b \in starts : b = i
         IN  IF last THEN out = run
             ELSE /\ StartsWith(out, run \o "-")
                  /\ IsRunsFrom(DropFirst(out, Len(run) + 1), t, j + 1)

\* C20: the normalized identifier holds only lower-case letters, digits and
\* hyphens, has no hyphen first or last and no two hyphens in a row, and is
\* the alphanumeric runs of the input with exactly one hyphen for each run
\* of other characters between two of them (the runs of other characters
\* before the first and after the last alphanumeric give nothing, as in
\* Demo_App!! -> demo-app).
C20_NormalizedShape ==
    Len(norm) >= 2 =>
        LET out == norm[2] IN
        /\ \A i \in 1..Len(out) : Ch(out, i) \in KebabLetters \cup {"-"}
        /\ ~StartsWith(out, "-")
        /\ ~EndsWith(out, "-")
        /\ ~Contains(out, "--")
        /\ IsRunsFrom(out, norm[1], 1)
        /\ norm[1] = "Demo_App!!" => out = "demo-app"

\* The example of the end-to-end scenario has been normalized.
C20_Witness ==
    /\ Len(norm) >= 2
    /\ norm[1] = "Demo_App!!"
    /\ norm[2] = "demo-app"

----------------------------------------------------------------------------
(* The whole run, from the search of the configuration file (SpecRun).      *)

ErrorKinds == {"Io", "Interrupted", "Validation", "Docker"}

\* Some operation with this name ended successfully.
Done(cmd) == \E i \in Indices(cmd) : Succeeded(trace[i])

\* Every stage of the pipeline did what it is there for: the project was
\* scaffolded, the last patch applied, the virtual-host file written, the
\* alias appended or found, the proxy restarted.
AllStagesSucceeded ==
    /\ Done("composer create-project")
    /\ Done("sed vite.config.js")
    /\ Done("fs::write")
    /\ Done("sudo") \/ (Done("fs::read_to_string") /\ ~(\E i \in Indices("sudo") : TRUE))
    /\ Done("docker compose restart apache")

\* The operations whose failure is returned as an error by the function
\* that performs them.
Fatal(e) ==
    /\ Failed(e)
    /\ e.cmd \notin {"docker ps", "fs::read_to_string", "exists"}
    /\ e.cmd = "find_env_path" => e.arg = EXAMPLE_ENV_FILE

\* C15: the process exits with 0 or 1; with 0 exactly when every stage
\* through the proxy restart succeeded; with 1 whenever run() returned an
\* error, whichever phase it came from, and whenever the last operation is
\* one whose failure is returned as an error.
C15_ExitStatus ==
    /\ pc # "exited" => exitCode = -1
    /\ pc = "exited" =>
        /\ exitCode \in {0, 1}
        /\ exitCode = 0 <=> AllStagesSucceeded
        /\ exitCode = 1 <=> result.kind \in ErrorKinds
        /\ (trace # <<>> /\ Fatal(trace[Len(trace)])) => exitCode = 1

\* A run that copied the template, was confirmed, and went through every
\* stage; the process has exited with 0.
C15_Witness ==
    /\ pc = "exited"
    /\ exitCode = 0
    /\ Done("fs::copy")
    /\ Done("docker compose restart apache")
    /\ input.project_name = "demo-app"

ContainerCommandNames ==
    {"docker ps", "docker compose up -d", "composer create-project", "sed .env",
     "docker exec", "sed vite.config.js", "docker compose restart apache"}

\* C16: a run that ends with Interrupted has run no container-runtime
\* command and no alias append, and no line is read from the terminal after
\* the first container-runtime command.
C16_AbortOnlyBeforePipeline ==
    /\ result.kind = "Interrupted" =>
          \A i \in 1..Len(trace) : trace[i].cmd \notin ContainerCommandNames \cup {"sudo"}
    /\ \A i, j \in 1..Len(trace) :
          (i < j /\ trace[i].cmd \in ContainerCommandNames) => trace[j].cmd # "read_line"

\* The user declined to try another project name; the process has exited.
C16_Witness ==
    /\ pc = "exited"
    /\ exitCode = 1
    /\ result.kind = "Interrupted"
    /\ trace[Len(trace)].arg = "another name"
    /\ \E i \in Indices("exists") : Succeeded(trace[i])

\* The two searches of run() found neither file.
NoFileFound ==
    /\ Len(trace) >= 2
    /\ trace[1].cmd = "find_env_path" /\ Failed(trace[1])
    /\ trace[2].cmd = "find_env_path" /\ Failed(trace[2])

\* ensure_env_file_exists returned an error.
ResolutionFailed ==
    /\ result.kind \in ErrorKinds
    /\ trace[Len(trace)].cmd \in {"find_env_path", "fs::copy", "read_line"}
    /\ trace[Len(trace)].cmd = "read_line" =>
          trace[Len(trace)].arg \in {"confirm .env", "press enter"}

\* C17 (as claimed): with neither file the resolution fails with a
\* Validation error, and it fails in no other case.
C17_FailsOnlyWithoutFiles ==
    Len(trace) >= 2 =>
        /\ NoFileFound => result.kind = "Validation"
        /\ ~NoFileFound => ~ResolutionFailed

EnvFiles == {".env", "../.env", "env.example", "../env.example"}

\* C17 (amended): with neither file in the working directory or its parent
\* the resolution fails with an Io (not found) error; with a source file it
\* does not fail; with a template only it fails when the copy fails or the
\* answer cannot be read (Io) or when the user declines (Interrupted); it
\* never fails with a Validation error.
C17_ResolutionFailures ==
    Len(trace) >= 2 =>
        /\ NoFileFound <=> (Len(trace) = 2 /\ result.kind = "Io")
        /\ NoFileFound => paths \cap EnvFiles = {}
        /\ Succeeded(trace[1]) =>
              /\ ~ResolutionFailed
              /\ paths \cap {".env", "../.env"} # {}
              /\ ~(\E i \in Indices("fs::copy") : TRUE)
        /\ ResolutionFailed =>
              LET last == trace[Len(trace)] IN
              /\ result.kind \in {"Io", "Interrupted"}
              /\ result.kind = "Io" <=> Failed(last)
              /\ result.kind = "Interrupted" =>
                    (last.arg = "press enter" /\ Done("fs::copy"))

\* Neither file exists: the run ended with the Io error, status 1.
C17_Witness ==
    /\ NoFileFound
    /\ pc = "exited"
    /\ exitCode = 1
    /\ result.kind = "Io"
    /\ paths = {}

----------------------------------------------------------------------------
(* The project request returned by get_user_input (SpecRun).                *)

\* get_user_input has returned its ProjectInput.
Requested == input # ProjectInput("", "")

\* get_user_input returns now: its last line, the version, was just read.
Returned == Requested /\ trace[Len(trace)].cmd = "read_line"

\* C21: the request returned by get_user_input has a non-empty identifier
\* that normalization leaves as it is (evaluated when get_user_input
\* returns; the request is not assigned again), the host <identifier>.test
\* and the path ../src/<identifier>; the last check of a project directory was made
\* on that path and found nothing; every check of a project directory comes
\* before the first container-runtime command, so none is made between the
\* return of get_user_input and the scaffold command.
C21_RequestChecked ==
    Requested =>
        LET checks == Indices("exists")
            last == CHOOSE i \in checks : \A j \in checks : j <= i
        IN  /\ input.project_name # ""
            /\ Returned =>
                  format_to_kebab_case(input.project_name) = input.project_name
            /\ input.project_host = input.project_name \o ".test"
            /\ input.project_path = "../src/" \o input.project_name
            /\ checks # {}
            /\ trace[last].arg = input.project_path
            /\ ~Succeeded(trace[last])
            /\ input.project_path \notin paths
            /\ trace[last + 1].cmd = "read_line"
            /\ \A j \in 1..last : trace[j].cmd \notin ContainerCommandNames

\* The directory of the first name existed, the user gave another name,
\* Demo_App!!, and the scaffold command has run for demo-app.
C21_Witness ==
    /\ Requested
    /\ input.project_name = "demo-app"
    /\ input.project_path = "../src/demo-app"
    /\ \E i \in Indices("exists") : Succeeded(trace[i]) /\ trace[i].arg = "../src/foo"
    /\ Done("composer create-project")

----------------------------------------------------------------------------
(* The virtual-host file (SpecVhost).                                        *)

\* The call of create_vhost_file that was entered last has returned.
VhostReturned == pc # EntryPc(RunStages[3])

\* The path create_vhost_file writes when a root is found.
VhostTarget == vhost_path(find_project_root)

VhostFile == [path |-> VhostTarget, content |-> vhost_content]

\* Earlier calls that returned Ok(()): k is the entry that followed them.
OkCalls == {k \in 2..Len(passes) : passes[k].result = OkResult}

\* C22: a call looks at nothing but the docker directories (no check of the
\* file it writes).  With a root, a call that returned Ok(()) leaves exactly
\* one file at <root>/docker/apache/vhosts/<host>.conf, with the generated
\* content, and every other file as it was before the first call; the files
\* are then the same as after every earlier call that returned Ok(()).
\* Without a root in the working directory or its parent, the call returns
\* an I/O error (not found), and no write is made: the files are those of
\* before the first call.
C22_VhostOverwrite ==
    /\ \A i \in 1..Len(trace) : trace[i].cmd \in {"find_project_root", "fs::write"}
    /\ \A i \in Indices("fs::write") :
          /\ trace[i].arg = VhostTarget
          /\ trace[i - 1].cmd = "find_project_root"
    /\ VhostReturned /\ find_project_root # "None" /\ result = NoResult =>
          /\ {f \in vhostFiles : f.path = VhostTarget} = {VhostFile}
          /\ {f \in vhostFiles : f.path # VhostTarget}
               = {f \in passes[1].files : f.path # VhostTarget}
          /\ Succeeded(trace[Len(trace)])
          /\ \A k \in OkCalls : passes[k].files = vhostFiles
    /\ VhostReturned /\ find_project_root = "None" =>
          /\ result.kind = "Io"
          /\ StartsWith(result.msg, "Não foi possível determinar o diretório raiz")
          /\ Indices("fs::write") = {}
          /\ vhostFiles = passes[1].files

\* The second call returned Ok(()) after a first one that did, under the
\* parent directory, where a file of that name was before the first call
\* with another content.
C22_Witness ==
    /\ VhostReturned
    /\ result = NoResult
    /\ find_project_root = ".."
    /\ 2 \in OkCalls
    /\ Len(passes) = 2
    /\ \E f \in passes[1].files : f.path = VhostTarget /\ f.content # vhost_content
    /\ Cardinality({i \in Indices("fs::write") : Succeeded(trace[i])}) = 2

\* No docker directory in the working directory nor in its parent: the call
\* failed and the files that were there are untouched.
C22_NoRootWitness ==
    /\ VhostReturned
    /\ find_project_root = "None"
    /\ result.kind = "Io"
    /\ vhostFiles # {}

----------------------------------------------------------------------------
(* The poll loop of execute_laravel_creation (Spec).                         *)

\* Positions of the polls whose answer lists the container.
RunningPolls == {i \in Polls : ReportsRunning(trace[i])}

\* The number of the attempt whose status query is at position i.
AttemptOf(i) == Cardinality({j \in Polls : j <= i})

\* C23: a poll that lists the container, on attempt 1, 2 or 3, comes after a
\* successful docker compose up and ends the readiness check with success:
\* no status query and no sleep of the loop follows it, the function has not
\* returned an error because of it, and the next external command is the
\* scaffold command (it is the next thing the program does if nothing was
\* issued yet).
C23_RunningPollEndsCheck ==
    \A i \in RunningPolls :
        /\ AttemptOf(i) \in 1..max_attempts
        /\ \E u \in Indices("docker compose up -d") : u < i /\ Succeeded(trace[u])
        /\ \A j \in (i + 1)..Len(trace) :
              ~(trace[j].cmd = "docker ps" \/ j \in PollSleeps)
        /\ IF i = Len(trace)
           THEN pc = "create_project" /\ result = NoResult /\ attempt = 0
           ELSE trace[i + 1].cmd = "composer create-project"

\* The container was listed by the status query of the last attempt only,
\* and the scaffold command was issued right after it.
C23_Witness ==
    \E i \in RunningPolls :
        /\ AttemptOf(i) = max_attempts
        /\ Cardinality(PollSleeps) = max_attempts
        /\ i < Len(trace)
        /\ trace[i + 1].cmd = "composer create-project"

\* Positions in the code of the readiness check: the first status query,
\* docker compose up -d, the sleep and the status query of the poll loop.
ReadinessPcs == {"check_initial", "compose_up", "poll_sleep", "poll_check"}

ReadinessEnded == pc \notin ReadinessPcs

\* The operations the readiness check performs.
IsReadinessEvent(i) ==
    trace[i].cmd \in {"docker ps", "docker compose up -d"} \/ i \in PollSleeps

\* At most 1 + max_attempts status queries, max_attempts of them polls, one
\* docker compose up -d and max_attempts sleeps; nothing but operations of
\* the readiness check comes before a status query, so every status query
\* is made in the first stage and before the scaffold command; once the
\* readiness check is over, it has succeeded (the scaffold command is next
\* or was issued) or execute_laravel_creation has returned a Docker error.
ReadinessBounded ==
    /\ Count("docker ps") <= 1 + max_attempts
    /\ Cardinality(Polls) <= max_attempts
    /\ Count("docker compose up -d") <= 1
    /\ Cardinality(PollSleeps) <= max_attempts
    /\ \A i \in Indices("docker ps") : \A j \in 1..i : IsReadinessEvent(j)
    /\ ~ReadinessEnded => stage = 1 /\ result = NoResult
    /\ ReadinessEnded =>
          \/ pc = "create_project" /\ stage = 1 /\ result = NoResult
          \/ Count("composer create-project") = 1
          \/ /\ result.kind = "Docker"
             /\ stage = 1
             /\ IsReadinessEvent(Len(trace))

\* C24: in a run where every external command returns, the readiness check
\* comes to an end, and at every moment the run has made at most 4 status
\* queries (1 first query and at most 3 polls), 1 docker compose up -d and 3
\* sleeps of the loop, all status queries in the first stage and before the
\* scaffold command; the check ends in success or in a Docker error.
C24_ReadinessTerminates == []ReadinessBounded /\ <>ReadinessEnded

\* The largest readiness check: 4 status queries, docker compose up -d and 3
\* sleeps, then the scaffold command.
C24_Witness ==
    /\ Count("docker ps") = 1 + max_attempts
    /\ Count("docker compose up -d") = 1
    /\ Cardinality(PollSleeps) = max_attempts
    /\ Count("composer create-project") = 1
    /\ ReadinessEnded

\* The readiness check ended in a Docker error after as many operations.
C24_ErrorWitness ==
    /\ Count("docker ps") = 1 + max_attempts
    /\ result.kind = "Docker"
    /\ stage = 1

====
